---- MODULE Spec2Model ----
(***************************************************************************)
(* Model of the now-playing tracker: the failure notifier (notify.py), the *)
(* two ingest paths with their dedup gate (nowplaying_multi.py,            *)
(* spotify_nowplaying.py) and the session rebuild (analyze_sessions.py).   *)
(*                                                                         *)
(* Time is in whole seconds.  A missing text value is None, a missing      *)
(* number is NoNum.  completion_pct is kept in tenths of a percent.        *)
(***************************************************************************)
EXTENDS Integers, Sequences, FiniteSets, TLC

VARIABLES
    clock,             \* datetime.now(), in seconds
    error_state,       \* contents of .error_state.json
    pc,                \* position inside record_device_error
    frame,             \* locals of the record_device_error call in progress
    calls,             \* per device: the last completed notifier call (history)
    lastCall,          \* the notifier call that completed last (history)
    reported,          \* per device: failures reported since the last success (history)
    now_playing,       \* the now_playing table: the rows in the order of their insertion
    polls,             \* the polls made so far, each with what it did (history)
    viewing_sessions,  \* the viewing_sessions table
    rb_pc,             \* position inside create_sessions_table
    lastRebuild,       \* the last completed create_sessions_table (history)
    connections,       \* per run of the poller: the tasks that hold an open store connection
    other_run,         \* what the overlapping run of the poller has met (history)
    tasks,             \* per device: the position of its task in the poll cycle
    cycle,             \* the position of log_all_devices
    hung               \* per device: the await of its task that never completes, if any

notifyVars == <<error_state, pc, frame, calls, lastCall, reported>>
ingestVars == <<now_playing, polls>>
sessionVars == <<viewing_sessions, rb_pc, lastRebuild>>
runVars == <<connections, other_run, tasks, cycle, hung>>
vars == <<clock, notifyVars, ingestVars, sessionVars, runVars>>

None == "None"
NoNum == 0 - 1

(***************************************************************************)
(* notify.py                                                               *)
(***************************************************************************)
CONSECUTIVE_FAILURES_THRESHOLD == 3
ERROR_COOLDOWN_MINUTES == 60

\* Bounds of the model.
MaxFailures == 4       \* record_device_error is not called past this stored count
MaxClock == 3600       \* the clock does not advance past this
MaxOtherCalls == 2     \* the overlapping run calls the notifier this often at most
NotifyTicks == {1800}  \* time that may pass between two notifier calls

Devices == {"Living Room", "Kitchen"}

\* Two runs of nowplaying_multi.py (two processes) that overlap in time.
Runs == {"this", "other"}

\* f"device:{device_name}"
ErrorKey(device_name) == <<"device", device_name>>
ErrorKeys == {ErrorKey(d) : d \in Devices}

\* datetime.isoformat() and datetime.fromisoformat()
IsoFormat(t) == <<"iso", t>>
FromIsoFormat(s) == s[2]

\* A JSON object is a function on the keys it holds: a key the file does not
\* hold is outside the DOMAIN.
EmptyDict == [k \in {} |-> 0]
DictGet(d, k, default) == IF k \in DOMAIN d THEN d[k] ELSE default
DictSet(d, k, v) == [x \in DOMAIN d \cup {k} |-> IF x = k THEN v ELSE d[x]]
DictDel(d, k) == [x \in DOMAIN d \ {k} |-> d[x]]

EmptyErrorState == [failure_counts |-> EmptyDict, last_notified |-> EmptyDict]

\* The file when it is not there, and when it is there and json.load raises
\* on it (it is empty, or it is not JSON).
NoFile == [exists |-> FALSE]
Unparseable == [text |-> "not JSON"]

\* _load_error_state, lines 50-58: the file's contents as parsed; the empty
\* state when there is no file or json.load raised.
LoadErrorState(file) ==
    IF "exists" \in DOMAIN file \/ "text" \in DOMAIN file THEN EmptyErrorState ELSE file

\* state["failure_counts"] (lines 74, 89) and state["last_notified"] (line 103)
\* raise KeyError on an object without the key.
LacksCounts(state) == "failure_counts" \notin DOMAIN state
LacksNotified(state) == "last_notified" \notin DOMAIN state

\* A last_notified entry that datetime.fromisoformat (line 105) raises on.
NotIso == <<"text", 0>>
Malformed(s) == s[1] # "iso"

\* record_device_success and record_device_error raise at lines 74 and 89.
CountsRaise(file) == LacksCounts(LoadErrorState(file))

\* record_device_error raises at line 103 or at line 105.
NotifiedRaise(state, error_key) ==
    \/ LacksNotified(state)
    \/ /\ error_key \in DOMAIN state.last_notified
       /\ Malformed(state.last_notified[error_key])

\* _save_error_state: the new contents of the file.
SaveErrorState(file, state) == state

\* record_device_error, lines 85-91: load, increment, save.
\* Gives the local state and the file after the save.
IncrementedState(file, error_key) ==
    LET state == LoadErrorState(file)
        current_count == DictGet(state.failure_counts, error_key, 0) + 1
    IN  [state EXCEPT !.failure_counts = DictSet(@, error_key, current_count)]

\* Mutant: the incremented count is not written.
PersistFailure_unsaved(file, error_key) == file

PersistFailure(file, error_key) ==
    SaveErrorState(file, IncrementedState(file, error_key))

\* Mutant: the threshold is taken one too low.
BelowThreshold_early(current_count) == current_count < CONSECUTIVE_FAILURES_THRESHOLD - 1

\* record_device_error, lines 97-99: below the threshold the call returns False.
BelowThreshold(current_count) == current_count < CONSECUTIVE_FAILURES_THRESHOLD

\* Mutant: the cooldown is never applied.
InCooldown_never(state, error_key, now) == FALSE

\* Mutant: the cooldown of a notified device never ends.
InCooldown_forever(state, error_key, now) ==
    DictGet(state.last_notified, error_key, None) # None

\* Mutant: a notification for any key opens the cooldown.
InCooldown_anykey(state, error_key, now) ==
    \E k \in DOMAIN state.last_notified :
        (now - FromIsoFormat(state.last_notified[k])) < ERROR_COOLDOWN_MINUTES * 60

\* record_device_error, lines 101-109: a notification for this key was sent
\* less than the cooldown ago.  minutes_ago = seconds / 60.
InCooldown(state, error_key, now) ==
    LET last_notified_str == DictGet(state.last_notified, error_key, None)
    IN  /\ last_notified_str # None
        /\ (now - FromIsoFormat(last_notified_str)) < ERROR_COOLDOWN_MINUTES * 60

\* Mutant: a send that succeeded is not recorded.
NotifiedState_unrecorded(state, error_key, now) == state

\* record_device_error, lines 128-132: what is saved after a send that succeeded.
NotifiedState(state, error_key, now) ==
    [state EXCEPT !.last_notified = DictSet(@, error_key, IsoFormat(now))]

\* Mutant: the count is set to 0 and stays in the file.
SuccessState_zeroed(file, error_key) ==
    LET state == LoadErrorState(file)
    IN  SaveErrorState(file, [state EXCEPT !.failure_counts = DictSet(@, error_key, 0)])

\* Mutant: a success clears the whole file.
SuccessState_wiped(file, error_key) == SaveErrorState(file, EmptyErrorState)

\* record_device_success, lines 70-76.
SuccessState(file, error_key) ==
    LET state == LoadErrorState(file)
    IN  IF error_key \in DOMAIN state.failure_counts
        THEN SaveErrorState(file, [state EXCEPT !.failure_counts = DictDel(@, error_key)])
        ELSE file

NoFrame == [device |-> None]
NoCall == [fn |-> "none", at |-> 0, count |-> 0, attempts |-> 0, ret |-> "None",
           fresh |-> FALSE, last |-> None]

\* What the file holds for a device, as _load_error_state gives it.
StoredCount(d) ==
    IF CountsRaise(error_state) THEN 0
    ELSE DictGet(LoadErrorState(error_state).failure_counts, ErrorKey(d), 0)
StoredNotified(d) ==
    IF LacksNotified(LoadErrorState(error_state)) THEN None
    ELSE DictGet(LoadErrorState(error_state).last_notified, ErrorKey(d), None)

Init ==
    /\ clock = 0
    /\ error_state = EmptyErrorState
    /\ pc = "idle"
    /\ frame = NoFrame
    /\ calls = [d \in Devices |-> NoCall]
    /\ lastCall = [device |-> None, prev |-> NoCall]
    /\ reported = [d \in Devices |-> 0]
    /\ now_playing = <<>>
    /\ polls = <<>>
    /\ viewing_sessions = [exists |-> FALSE, rows |-> <<>>]
    /\ rb_pc = "idle"
    /\ lastRebuild = [made |-> FALSE]
    /\ connections = [r \in Runs |-> {}]
    /\ other_run = [refused |-> FALSE, called |-> 0]
    /\ tasks = [d \in Devices |-> "none"]
    /\ cycle = "idle"
    /\ hung = [d \in Devices |-> "no"]

\* Time passes between two notifier calls.
Tick ==
    /\ pc = "idle"
    /\ \E g \in NotifyTicks :
        /\ clock + g <= MaxClock
        /\ clock' = clock + g
    /\ UNCHANGED <<notifyVars, ingestVars, sessionVars, runVars>>

\* The record of a completed call of record_device_error; last is the
\* last_notified entry of the device that the call found.
ErrorCall(d, count, attempts, ret, now) ==
    [fn |-> "record_device_error", at |-> now, count |-> count,
     attempts |-> attempts, ret |-> ret,
     fresh |-> IF count = 1 THEN StoredNotified(d) = None ELSE calls[d].fresh,
     last |-> StoredNotified(d)]

Return(d, call) ==
    /\ pc' = "idle"
    /\ frame' = NoFrame
    /\ calls' = [calls EXCEPT ![d] = call]
    /\ lastCall' = [device |-> d, prev |-> calls[d]]

\* A whole call of record_device_success(device_name) at time now, on a file
\* that holds the failure_counts mapping or is not there.
CallRecordDeviceSuccess(d, now) ==
    /\ pc = "idle"
    /\ error_state' = SuccessState(error_state, ErrorKey(d))
    /\ reported' = [reported EXCEPT ![d] = 0]
    /\ Return(d, [NoCall EXCEPT !.fn = "record_device_success", !.at = now])

\* record_device_success(device_name), lines 70-76; the KeyError of line 74
\* leaves the call before anything is written.
RecordDeviceSuccess(d) ==
    /\ IF CountsRaise(error_state)
       THEN /\ pc = "idle"
            /\ Return(d, [NoCall EXCEPT !.fn = "record_device_success", !.at = clock,
                                        !.ret = "raised"])
            /\ UNCHANGED <<error_state, reported>>
       ELSE CallRecordDeviceSuccess(d, clock)
    /\ UNCHANGED <<clock, ingestVars, sessionVars, runVars>>

\* record_device_error(device_name, error), lines 85-91; the KeyError of
\* line 89 leaves the call before anything is written.
RecordDeviceError_begin(d) ==
    /\ pc = "idle"
    /\ StoredCount(d) < MaxFailures
    /\ IF CountsRaise(error_state)
       THEN /\ Return(d, ErrorCall(d, 0, 0, "raised", clock))
            /\ UNCHANGED <<error_state, reported>>
       ELSE /\ error_state' = PersistFailure(error_state, ErrorKey(d))
            /\ frame' = [device |-> d,
                         state |-> IncrementedState(error_state, ErrorKey(d)),
                         current_count |->
                             IncrementedState(error_state, ErrorKey(d)).failure_counts[ErrorKey(d)]]
            /\ reported' = [reported EXCEPT ![d] = @ + 1]
            /\ pc' = "persisted"
            /\ UNCHANGED <<calls, lastCall>>

\* The same step of a call made outside a poll cycle.
RecordDeviceError_persist(d) ==
    /\ RecordDeviceError_begin(d)
    /\ UNCHANGED <<clock, ingestVars, sessionVars, runVars>>

\* record_device_error, lines 97-109: the threshold and the cooldown checks;
\* the KeyError of line 103 and the ValueError of line 105 leave the call.
RecordDeviceError_check ==
    /\ pc = "persisted"
    /\ LET d == frame.device
           now == clock
       IN  IF BelowThreshold(frame.current_count)
           THEN Return(d, ErrorCall(d, frame.current_count, 0, "False", now))
           ELSE IF NotifiedRaise(frame.state, ErrorKey(d))
           THEN Return(d, ErrorCall(d, frame.current_count, 0, "raised", now))
           ELSE IF InCooldown(frame.state, ErrorKey(d), now)
           THEN Return(d, ErrorCall(d, frame.current_count, 0, "False", now))
           ELSE /\ pc' = "send"
                /\ UNCHANGED <<frame, calls, lastCall>>
    /\ UNCHANGED <<clock, error_state, reported, ingestVars, sessionVars, runVars>>

\* record_device_error, lines 128-132, with _send_email (lines 135-157), which
\* gives True, or False when mail is not configured or the transport raised.
RecordDeviceError_send ==
    /\ pc = "send"
    /\ \E sent \in BOOLEAN :
        LET d == frame.device
            now == clock
        IN  /\ error_state' =
                   IF sent
                   THEN SaveErrorState(error_state, NotifiedState(frame.state, ErrorKey(d), now))
                   ELSE error_state
            /\ Return(d, ErrorCall(d, frame.current_count, 1,
                                   IF sent THEN "True" ELSE "False", now))
    /\ UNCHANGED <<clock, reported, ingestVars, sessionVars, runVars>>

\* record_device_error, lines 85-132, run from its load to its return: the file
\* it leaves.
ErrorStateAfter(file, error_key, now, sent) ==
    LET state == IncrementedState(file, error_key)
        saved == PersistFailure(file, error_key)
        attempt == /\ ~BelowThreshold(state.failure_counts[error_key])
                   /\ ~InCooldown(state, error_key, now)
    IN  IF attempt /\ sent
        THEN SaveErrorState(saved, NotifiedState(state, error_key, now))
        ELSE saved

\* A whole call of notify_device_error(device_name, error) at time now, which is
\* record_device_error (lines 167-169, 79-132), on a file that holds both
\* mappings and no malformed entry; sent is what _send_email gives if it is
\* called.
CallNotifyDeviceError(d, now, sent) ==
    LET error_key == ErrorKey(d)
        state == IncrementedState(error_state, error_key)
        current_count == state.failure_counts[error_key]
        attempt == /\ ~BelowThreshold(current_count)
                   /\ ~InCooldown(state, error_key, now)
    IN  /\ pc = "idle"
        /\ error_state' = ErrorStateAfter(error_state, error_key, now, sent)
        /\ reported' = [reported EXCEPT ![d] = @ + 1]
        /\ Return(d, ErrorCall(d, current_count, IF attempt THEN 1 ELSE 0,
                               IF attempt /\ sent THEN "True" ELSE "False", now))

\* record_device_success(device_name) followed, in the same poll, by
\* notify_device_error(device_name, error): lines 109 and 239 of
\* nowplaying_multi.py.  The count the second call finds is 0.
CallSuccessThenError(d, now, sent) ==
    LET error_key == ErrorKey(d)
        cleared == SuccessState(error_state, error_key)
    IN  /\ pc = "idle"
        /\ error_state' = ErrorStateAfter(cleared, error_key, now, sent)
        /\ reported' = [reported EXCEPT ![d] = 1]
        /\ pc' = "idle"
        /\ frame' = NoFrame
        /\ calls' = [calls EXCEPT ![d] = ErrorCall(d, 1, 0, "False", now)]
        /\ lastCall' = [device |-> d,
                        prev |-> [NoCall EXCEPT !.fn = "record_device_success", !.at = now]]

NextNotify ==
    \/ Tick
    \/ \E d \in Devices : RecordDeviceSuccess(d)
    \/ \E d \in Devices : RecordDeviceError_persist(d)
    \/ RecordDeviceError_check
    \/ RecordDeviceError_send

SpecNotify == Init /\ [][NextNotify]_vars

\* What .error_state.json can hold that this version of notify.py did not
\* write: nothing (no file), text json.load raises on, the object {}, an
\* object with one of the two mappings, a last_notified entry that is not an
\* ISO timestamp, and the empty state.
StateFiles ==
    <<NoFile,
      Unparseable,
      EmptyDict,
      [failure_counts |-> [k \in {ErrorKey("Living Room")} |-> 2]],
      [last_notified |-> EmptyDict],
      [failure_counts |-> [k \in {ErrorKey("Living Room")} |-> 2],
       last_notified |-> [k \in {ErrorKey("Living Room")} |-> NotIso]],
      EmptyErrorState>>

\* The file as the first call of the notifier finds it (ERROR_STATE_FILE,
\* line 47, read at lines 52-55).
FindStateFile ==
    /\ pc = "idle"
    /\ clock = 0
    /\ lastCall.device = None
    /\ \E i \in 1..Len(StateFiles) : error_state' = StateFiles[i]
    /\ UNCHANGED <<clock, pc, frame, calls, lastCall, reported, ingestVars, sessionVars, runVars>>

NextStateFile ==
    \/ FindStateFile
    \/ NextNotify

SpecStateFile == Init /\ [][NextStateFile]_vars

(***************************************************************************)
(* Two runs of the poller that overlap in time.  Every call of the         *)
(* notifier is made by a task between its init_duckdb() (line 92 of        *)
(* nowplaying_multi.py) and its con.close() (line 248).  The calls of this *)
(* run are taken step by step; the other run is another process, whose     *)
(* steps fall anywhere between them, and its calls are taken whole.        *)
(***************************************************************************)

\* Mutant: the store file can be opened by two processes at once.
CanConnect_unlocked(r) == TRUE

\* duckdb.connect(str(DB_PATH)), line 25: DuckDB opens a database file for
\* writing in one process at a time; the process that has it open can open it
\* again, and any other process gets an IOException.
CanConnect(r) == \A o \in Runs \ {r} : connections[o] = {}

\* con = init_duckdb() in a task of this run, line 92.  The tasks of a run
\* share one thread and the notifier's calls do not await, so nothing of this
\* run happens while one of its calls is in progress.
InitDuckdb(d) ==
    /\ pc = "idle"
    /\ d \notin connections["this"]
    /\ CanConnect("this")
    /\ connections' = [connections EXCEPT !["this"] = @ \cup {d}]
    /\ UNCHANGED <<clock, notifyVars, ingestVars, sessionVars, other_run, tasks, cycle, hung>>

\* con.close() in a task of this run, line 248.
CloseConnection(d) ==
    /\ pc = "idle"
    /\ d \in connections["this"]
    /\ connections' = [connections EXCEPT !["this"] = @ \ {d}]
    /\ UNCHANGED <<clock, notifyVars, ingestVars, sessionVars, other_run, tasks, cycle, hung>>

\* con = init_duckdb() in a task of the other run; the IOException leaves the
\* task before its try block, so it makes no call of the notifier.
OtherInitDuckdb(d) ==
    /\ d \notin connections["other"]
    /\ IF CanConnect("other")
       THEN /\ connections' = [connections EXCEPT !["other"] = @ \cup {d}]
            /\ UNCHANGED other_run
       ELSE /\ other_run' = [other_run EXCEPT !.refused = TRUE]
            /\ UNCHANGED connections
    /\ UNCHANGED <<clock, notifyVars, ingestVars, sessionVars, tasks, cycle, hung>>

\* record_device_success (line 109) or notify_device_error (lines 235, 239,
\* 246) in a task of the other run.
OtherCall(d) ==
    /\ d \in connections["other"]
    /\ \E failed \in BOOLEAN, sent \in BOOLEAN :
        IF failed
        THEN /\ StoredCount(d) < MaxFailures
             /\ error_state' = ErrorStateAfter(error_state, ErrorKey(d), clock, sent)
             /\ reported' = [reported EXCEPT ![d] = @ + 1]
        ELSE /\ error_state' = SuccessState(error_state, ErrorKey(d))
             /\ reported' = [reported EXCEPT ![d] = 0]
    /\ other_run.called < MaxOtherCalls
    /\ other_run' = [other_run EXCEPT !.called = @ + 1]
    /\ UNCHANGED <<clock, pc, frame, calls, lastCall, ingestVars, sessionVars>>
    /\ UNCHANGED <<connections, tasks, cycle, hung>>

\* con.close() in a task of the other run.
OtherClose(d) ==
    /\ d \in connections["other"]
    /\ connections' = [connections EXCEPT !["other"] = @ \ {d}]
    /\ UNCHANGED <<clock, notifyVars, ingestVars, sessionVars, other_run, tasks, cycle, hung>>

NextOverlap ==
    \/ \E d \in Devices : InitDuckdb(d)
    \/ \E d \in Devices : d \in connections["this"] /\ RecordDeviceSuccess(d)
    \/ \E d \in Devices : d \in connections["this"] /\ RecordDeviceError_persist(d)
    \/ RecordDeviceError_check
    \/ RecordDeviceError_send
    \/ \E d \in Devices : CloseConnection(d)
    \/ \E d \in Devices : OtherInitDuckdb(d)
    \/ \E d \in Devices : OtherCall(d)
    \/ \E d \in Devices : OtherClose(d)

SpecOverlap == Init /\ [][NextOverlap]_vars

(***************************************************************************)
(* nowplaying_multi.py and spotify_nowplaying.py: the two ingest paths     *)
(***************************************************************************)
\* A row of now_playing.  The Apple TV path's INSERT names no user_name column,
\* which leaves it NULL.
Row(ts, device_name, address, state, app, title, artist, album, series_name, season, episode, media_type, position, duration, device_model, user_name) ==
    [ts |-> ts, device_name |-> device_name, address |-> address, state |-> state,
     app |-> app, title |-> title, artist |-> artist, album |-> album,
     series_name |-> series_name, season |-> season, episode |-> episode,
     media_type |-> media_type, position |-> position, duration |-> duration,
     device_model |-> device_model, user_name |-> user_name]

\* The name of a pyatv enum member.
EnumName(value) ==
    CASE value = "DeviceState.Idle" -> "Idle"
      [] value = "DeviceState.Loading" -> "Loading"
      [] value = "DeviceState.Paused" -> "Paused"
      [] value = "DeviceState.Playing" -> "Playing"
      [] value = "DeviceState.Stopped" -> "Stopped"
      [] value = "MediaType.Unknown" -> "Unknown"
      [] value = "MediaType.Video" -> "Video"
      [] value = "MediaType.Music" -> "Music"
      [] value = "DeviceModel.Gen4K" -> "Gen4K"
      [] value = "DeviceModel.AppleTV4KGen2" -> "AppleTV4KGen2"
      [] value = "DeviceModel.HomePodMini" -> "HomePodMini"

\* enum_to_text
EnumToText(value) == IF value = None THEN None ELSE EnumName(value)

\* "HomePod" in device_model, "AppleTV" in device_model
ContainsHomePod(device_model) == device_model \in {"HomePod", "HomePodMini", "HomePodGen2"}
ContainsAppleTV(device_model) == device_model \in {"AppleTV4KGen2", "AppleTV4KGen3"}

\* log_device_now_playing, lines 141-148: the media type of an unknown type.
InferMediaType(media_type, device_model) ==
    IF media_type = "Unknown" \/ media_type = None
    THEN IF device_model # None /\ ContainsHomePod(device_model) THEN "Music"
         ELSE IF device_model # None /\ ContainsAppleTV(device_model) THEN "Video"
         ELSE media_type
    ELSE media_type

\* ORDER BY ts DESC LIMIT 1 over the rows at the indices in S (S not empty).
\* The rows' timestamps differ: each is a datetime.now() of its own.
Latest(table, S) == CHOOSE i \in S : \A j \in S : table[j].ts <= table[i].ts

NoRow == [found |-> FALSE]

\* nowplaying_multi.get_last_row, lines 66-86.
GetLastRow(table, device_name) ==
    LET S == {i \in 1..Len(table) : table[i].device_name = device_name}
    IN  IF S = {} THEN NoRow
        ELSE LET r == table[Latest(table, S)]
             IN  [found |-> TRUE, ts |-> r.ts, state |-> r.state, app |-> r.app,
                  title |-> r.title, series_name |-> r.series_name,
                  season |-> r.season, episode |-> r.episode,
                  media_type |-> r.media_type]

\* log_device_now_playing, lines 164-171.
SameShow(last, app, title, series_name, season, episode, media_type) ==
    /\ last.app = app
    /\ last.title = title
    /\ last.series_name = series_name
    /\ last.season = season
    /\ last.episode = episode
    /\ last.media_type = media_type

\* log_device_now_playing, lines 150-175: the poll returns without inserting.
SkipDevicePaused(last, state, app, title, series_name, season, episode, media_type) ==
    /\ last.found
    /\ state = "Paused"
    /\ last.state = "Paused"
    /\ SameShow(last, app, title, series_name, season, episode, media_type)

\* The history record of one poll: its path, its source, the number of rows
\* before it, the row it built (if it came to build one) and what it did.
NoCandidate == [state |-> None]

\* What the source reported before any normalisation: the playback state and
\* the media type of the snapshot; nothing when there was no snapshot.
NoRaw == [state |-> None, media_type |-> None]
Raw(state, media_type) == [state |-> state, media_type |-> media_type]

Poll(path, device_name, user_name, before, candidate, outcome, raw) ==
    [path |-> path, device_name |-> device_name, user_name |-> user_name,
     before |-> before, candidate |-> candidate, outcome |-> outcome, raw |-> raw]

\* Mutant: every playback state is logged.
Watching_any(state) == TRUE

\* log_device_now_playing, lines 114-116: only Playing and Paused are logged.
Watching(state) == state \in {"Playing", "Paused"}

\* Mutant: the INSERT writes nothing.
Insert_nothing(table, row) == table

\* INSERT INTO now_playing (...) VALUES (...), lines 194-218 of
\* nowplaying_multi.py and 322-347 of spotify_nowplaying.py.
Insert(table, row) == Append(table, row)

\* log_device_now_playing(config, loop, storage), lines 89-248, gap seconds
\* after the previous poll.  fetched is "connect_error", "auth_error",
\* "fetch_error" or "ok"; playing and app_obj are what the device reports.
\* With "store_error" the snapshot was fetched and a statement on the store
\* (the SELECT of get_last_row, line 151, or the INSERT, line 194) raised:
\* the handler of line 236 catches it.
LogDeviceNowPlaying(config, gap, fetched, playing, app_obj, sent) ==
    LET now == clock + gap
        state == EnumToText(playing.device_state)
        ts == now
        app == IF app_obj.present THEN app_obj.name ELSE None
        title == playing.title
        artist == playing.artist
        album == playing.album
        series_name == playing.series_name
        season == playing.season_number
        episode == playing.episode_number
        position == playing.position
        duration == playing.total_time
        device_model == IF config.model # None THEN EnumToText(config.model) ELSE None
        media_type == InferMediaType(EnumToText(playing.media_type), device_model)
        last == GetLastRow(now_playing, config.name)
        row == Row(ts, config.name, config.address, state, app, title, artist, album,
                   series_name, season, episode, media_type, position, duration,
                   device_model, None)
        before == Len(now_playing)
        raw == Raw(state, EnumToText(playing.media_type))
    IN  /\ clock' = now
        /\ IF fetched = "store_error"
           THEN /\ Watching(state)
                /\ CallSuccessThenError(config.name, now, sent)
                /\ polls' = Append(polls, Poll("device", config.name, None, before,
                                               NoCandidate, fetched, raw))
                /\ UNCHANGED now_playing
           ELSE IF fetched # "ok"
           THEN /\ CallNotifyDeviceError(config.name, now, sent)
                /\ polls' = Append(polls, Poll("device", config.name, None, before,
                                               NoCandidate, fetched, NoRaw))
                /\ UNCHANGED now_playing
           ELSE /\ CallRecordDeviceSuccess(config.name, now)
                /\ IF ~Watching(state)
                   THEN /\ polls' = Append(polls, Poll("device", config.name, None, before,
                                                       NoCandidate, "discard", raw))
                        /\ UNCHANGED now_playing
                   ELSE IF SkipDevicePaused(last, state, app, title, series_name, season,
                                            episode, media_type)
                   THEN /\ polls' = Append(polls, Poll("device", config.name, None, before,
                                                       row, "suppress", raw))
                        /\ UNCHANGED now_playing
                   ELSE /\ polls' = Append(polls, Poll("device", config.name, None, before,
                                                       row, "emit", raw))
                        /\ now_playing' = Insert(now_playing, row)

\* ", ".join(names)
RECURSIVE JoinNames(_)
JoinNames(names) ==
    IF Len(names) = 1 THEN names[1]
    ELSE names[1] \o ", " \o JoinNames(Tail(names))

\* log_spotify_playback_for_user, lines 246-250.
SpotifyDeviceName(raw_device_name, user_name) ==
    IF raw_device_name \in {"iPhone", "iPad"}
    THEN raw_device_name \o " (" \o user_name \o ")"
    ELSE raw_device_name

\* log_spotify_playback_for_user, lines 282-291.
SpotifyLastRow(table, device_name, user_name) ==
    LET S == {i \in 1..Len(table) : /\ table[i].device_name = device_name
                                    /\ table[i].user_name # None
                                    /\ table[i].user_name = user_name}
    IN  IF S = {} THEN NoRow
        ELSE LET r == table[Latest(table, S)]
             IN  [found |-> TRUE, ts |-> r.ts, state |-> r.state, title |-> r.title,
                  artist |-> r.artist, album |-> r.album]

\* log_spotify_playback_for_user, lines 292-302: the poll returns without inserting.
SkipSpotifyPaused(last, state, title, artist, album) ==
    /\ last.found
    /\ state = "Paused"
    /\ last.state = "Paused"
    /\ last.title = title /\ last.artist = artist /\ last.album = album

\* progress_ms / 1000.0 if progress_ms else None (whole seconds in the model)
MsToSeconds(ms) == IF ms = NoNum \/ ms = 0 THEN NoNum ELSE ms \div 1000

NoCurrent == [item |-> None]

\* log_spotify_playback_for_user(user_config, con), lines 199-352, gap seconds
\* after the previous poll.  fetched is "error" when current_playback raised;
\* current is what the account reports.
LogSpotifyPlaybackForUser(user_name, gap, fetched, current) ==
    LET now == clock + gap
        item == current.item
        ts == now
        raw_device_name == current.device.name
        device_model == current.device.type
        device_name == SpotifyDeviceName(raw_device_name, user_name)
        state == IF current.is_playing THEN "Playing" ELSE "Paused"
        app == "Spotify"
        title == item.name
        artist == IF item.artists # <<>> THEN JoinNames(item.artists) ELSE None
        album == item.album
        position == MsToSeconds(current.progress_ms)
        duration == MsToSeconds(item.duration_ms)
        last == SpotifyLastRow(now_playing, device_name, user_name)
        row == Row(ts, device_name, None, state, app, title, artist, album,
                   None, NoNum, NoNum, "Music", position, duration, device_model,
                   user_name)
        before == Len(now_playing)
        raw == Raw(state, "Music")
    IN  /\ clock' = now
        /\ UNCHANGED notifyVars
        /\ IF fetched = "error" \/ current = NoCurrent
           THEN /\ polls' = Append(polls, Poll("spotify", None, user_name, before,
                                               NoCandidate,
                                               IF fetched = "error" THEN "error"
                                               ELSE "discard", NoRaw))
                /\ UNCHANGED now_playing
           ELSE IF SkipSpotifyPaused(last, state, title, artist, album)
           THEN /\ polls' = Append(polls, Poll("spotify", device_name, user_name, before,
                                               row, "suppress", raw))
                /\ UNCHANGED now_playing
           ELSE /\ polls' = Append(polls, Poll("spotify", device_name, user_name, before,
                                               row, "emit", raw))
                /\ now_playing' = Insert(now_playing, row)


(***************************************************************************)
(* analyze_sessions.py: create_sessions_table                              *)
(***************************************************************************)
SESSION_GAP_MINUTES == 10
MIN_WATCH_TIME_SECONDS == 30

\* WHERE state IN ('Playing', 'Paused'): the indices of the rows read.
Plays(t) == {i \in 1..Len(t) : t[i].state \in {"Playing", "Paused"}}

\* PARTITION BY device_name, title, series_name, season, episode, artist, album
\* (NULLs fall in one partition).
PartitionKey(r) ==
    <<r.device_name, r.title, r.series_name, r.season, r.episode, r.artist, r.album>>

InPartition(t, i) == {j \in Plays(t) : PartitionKey(t[j]) = PartitionKey(t[i])}

\* LAG(ts) OVER (PARTITION BY ... ORDER BY ts), lines 64-67.
PrevTs(t, i) ==
    LET before == {j \in InPartition(t, i) : t[j].ts < t[i].ts}
    IN  IF before = {} THEN NoNum ELSE t[Latest(t, before)].ts

\* Mutant: a gap equal to the threshold starts a session.
IsNewSession_atleast(t, i) ==
    IF PrevTs(t, i) = NoNum \/ t[i].ts - PrevTs(t, i) >= SESSION_GAP_MINUTES * 60
    THEN 1 ELSE 0

\* is_new_session, lines 75-80.
IsNewSession(t, i) ==
    IF PrevTs(t, i) = NoNum \/ t[i].ts - PrevTs(t, i) > SESSION_GAP_MINUTES * 60
    THEN 1 ELSE 0

\* Mutant: the sum leaves out the row itself.
SessionId_before(t, i) ==
    Cardinality({j \in InPartition(t, i) : t[j].ts < t[i].ts /\ IsNewSession(t, j) = 1})

\* SUM(is_new_session) OVER (PARTITION BY ... ORDER BY ts), lines 87-90: the
\* sum over the rows of the partition up to this one.
SessionId(t, i) ==
    Cardinality({j \in InPartition(t, i) : t[j].ts <= t[i].ts /\ IsNewSession(t, j) = 1})

\* GROUP BY, lines 121-130.
GroupKey(t, i) ==
    [device_name |-> t[i].device_name, title |-> t[i].title, artist |-> t[i].artist,
     album |-> t[i].album, series_name |-> t[i].series_name, season |-> t[i].season,
     episode |-> t[i].episode, media_type |-> t[i].media_type,
     session_id |-> SessionId(t, i)]

GroupKeys(t) == {GroupKey(t, i) : i \in Plays(t)}
\* Mutant: a group takes the events of every media type of its session.
GroupMembers_session(t, k) ==
    {i \in Plays(t) : [GroupKey(t, i) EXCEPT !.media_type = k.media_type] = k}
GroupMembers(t, k) == {i \in Plays(t) : GroupKey(t, i) = k}

\* MAX and MIN of a column over a group: NULLs are left out, and the result is
\* NULL when nothing is left.
Known(S) == S \ {NoNum}
MaxOf(S) == IF Known(S) = {} THEN NoNum ELSE CHOOSE x \in Known(S) : \A y \in Known(S) : y <= x
MinOf(S) == IF Known(S) = {} THEN NoNum ELSE CHOOSE x \in Known(S) : \A y \in Known(S) : x <= y

\* Mutant: the watch time is always the wall-clock span.
WatchTime_wallclock(positions, stamps) == MaxOf(stamps) - MinOf(stamps)

\* watch_time_seconds, lines 107-111.
WatchTime(positions, stamps) ==
    IF MaxOf(positions) # NoNum /\ MinOf(positions) # NoNum
    THEN MaxOf(positions) - MinOf(positions)
    ELSE MaxOf(stamps) - MinOf(stamps)

\* ROUND(x / y * 100, 1) for x >= 0 and y > 0, in tenths: halves round up.
RoundPct(x, y) == (2000 * x + y) \div (2 * y)

\* Mutant: the percentage is cut off at 100.
CompletionPct_clamped(positions, durations) ==
    IF MaxOf(durations) # NoNum /\ MaxOf(durations) > 0 /\ MaxOf(positions) # NoNum
    THEN IF RoundPct(MaxOf(positions), MaxOf(durations)) > 1000 THEN 1000
         ELSE RoundPct(MaxOf(positions), MaxOf(durations))
    ELSE NoNum

\* completion_pct, lines 113-117 (MAX(duration) > 0 is not true of a NULL).
CompletionPct(positions, durations) ==
    IF MaxOf(durations) # NoNum /\ MaxOf(durations) > 0 /\ MaxOf(positions) # NoNum
    THEN RoundPct(MaxOf(positions), MaxOf(durations))
    ELSE NoNum

\* The SELECT list, lines 93-119, for the group with key k.
SessionRow(t, k) ==
    LET M == GroupMembers(t, k)
        stamps == {t[i].ts : i \in M}
        positions == {t[i].position : i \in M}
        durations == {t[i].duration : i \in M}
    IN  [device_name |-> k.device_name, title |-> k.title, artist |-> k.artist,
         album |-> k.album, series_name |-> k.series_name, season |-> k.season,
         episode |-> k.episode, media_type |-> k.media_type,
         session_start |-> MinOf(stamps), session_end |-> MaxOf(stamps),
         max_position_reached |-> MaxOf(positions),
         media_duration |-> MaxOf(durations),
         watch_time_seconds |-> WatchTime(positions, stamps),
         completion_pct |-> CompletionPct(positions, durations),
         num_entries |-> Cardinality(M),
         session_id |-> k.session_id]

\* Mutant: the floor on the watch time is left out.
Having_count(row) == row.num_entries >= 1

\* Mutant: a group at the floor is dropped.
Having_above(row) ==
    row.num_entries >= 1 /\ row.watch_time_seconds > MIN_WATCH_TIME_SECONDS

\* HAVING, lines 131-132.
Having(row) ==
    row.num_entries >= 1 /\ row.watch_time_seconds >= MIN_WATCH_TIME_SECONDS

\* ORDER BY session_start DESC, line 133.  Two groups never start together:
\* they share no row, and the rows' timestamps differ.
RECURSIVE OrderBySessionStartDesc(_)
OrderBySessionStartDesc(S) ==
    IF S = {} THEN <<>>
    ELSE LET first == CHOOSE r \in S : \A q \in S : q.session_start <= r.session_start
         IN  <<first>> \o OrderBySessionStartDesc(S \ {first})

\* The query of lines 48-134 over the table t.
SessionsQuery(t) ==
    OrderBySessionStartDesc({r \in {SessionRow(t, k) : k \in GroupKeys(t)} : Having(r)})

NoTable == [exists |-> FALSE, rows |-> <<>>]

\* Mutant: the old table is left in place.
DropIfExists_kept(table) == table

\* DROP VIEW IF EXISTS, DROP TABLE IF EXISTS, lines 39-46.
DropIfExists(table) == NoTable

\* CREATE TABLE viewing_sessions AS ..., line 47: raises when the table exists.
CanCreate(table) == ~table.exists
CreateTableAs(table, rows) == [exists |-> TRUE, rows |-> rows]

\* create_sessions_table, lines 39-46.
CreateSessionsTable_drop ==
    /\ pc = "idle"
    /\ rb_pc = "idle"
    /\ viewing_sessions' = DropIfExists(viewing_sessions)
    /\ rb_pc' = "dropped"
    /\ lastRebuild' = [made |-> FALSE, old |-> viewing_sessions,
                       old_len |-> IF lastRebuild.made THEN lastRebuild.len ELSE NoNum]
    /\ UNCHANGED <<clock, notifyVars, ingestVars, runVars>>

\* create_sessions_table, lines 47-134.  When CREATE TABLE raises, the table
\* stays as it is and the error leaves create_sessions_table.
CreateSessionsTable_create ==
    /\ rb_pc = "dropped"
    /\ viewing_sessions' =
           IF CanCreate(viewing_sessions)
           THEN CreateTableAs(viewing_sessions, SessionsQuery(now_playing))
           ELSE viewing_sessions
    /\ rb_pc' = "idle"
    /\ lastRebuild' =
           LET again == lastRebuild.old.exists /\ lastRebuild.old_len = Len(now_playing)
           IN  [made |-> TRUE, len |-> Len(now_playing), again |-> again,
                old |-> IF again THEN lastRebuild.old ELSE NoTable]
    /\ UNCHANGED <<clock, notifyVars, ingestVars, runVars>>


(***************************************************************************)
(* The gate under polls of one Apple TV and one Spotify account            *)
(***************************************************************************)
MaxPolls == 3          \* bound: polls made in one behaviour
GateGaps == {60}       \* seconds between two polls

NoApp == [present |-> FALSE]
App(name) == [present |-> TRUE, name |-> name, identifier |-> "com." \o name]

GateConfigs ==
    {[name |-> "Living Room", address |-> "10.0.0.2", model |-> "DeviceModel.Gen4K"]}

BasePlaying ==
    [device_state |-> "DeviceState.Paused", title |-> "T1", artist |-> "A1",
     album |-> "L1", series_name |-> None, season_number |-> NoNum,
     episode_number |-> NoNum, media_type |-> "MediaType.Video",
     position |-> 10, total_time |-> 200]

\* The base snapshot and the snapshots that differ from it in one field.
PlayingVariants ==
    { BasePlaying,
      [BasePlaying EXCEPT !.title = "T2"],
      [BasePlaying EXCEPT !.artist = "A2"],
      [BasePlaying EXCEPT !.album = "L2"],
      [BasePlaying EXCEPT !.series_name = "S1"],
      [BasePlaying EXCEPT !.season_number = 1],
      [BasePlaying EXCEPT !.episode_number = 1],
      [BasePlaying EXCEPT !.media_type = "MediaType.Unknown"] }

GateInputs ==
    {[playing |-> [v EXCEPT !.device_state = st], app |-> App("TV")] :
        v \in PlayingVariants, st \in {"DeviceState.Playing", "DeviceState.Paused"}}
    \cup {[playing |-> [BasePlaying EXCEPT !.device_state = st], app |-> a] :
        st \in {"DeviceState.Playing", "DeviceState.Paused"}, a \in {App("Netflix"), NoApp}}
    \cup {[playing |-> [BasePlaying EXCEPT !.device_state = st], app |-> App("TV")] :
        st \in {"DeviceState.Idle", "DeviceState.Stopped", "DeviceState.Loading"}}

GateUsers == {"Ted"}

BaseItem == [name |-> "T1", artists |-> <<"A1">>, album |-> "L1", duration_ms |-> 200000]

ItemVariants ==
    { BaseItem,
      [BaseItem EXCEPT !.name = "T2"],
      [BaseItem EXCEPT !.artists = <<"A1", "A2">>],
      [BaseItem EXCEPT !.album = "L2"] }

GateCurrents ==
    {[item |-> it, device |-> [name |-> "iPhone", type |-> "Smartphone"],
      is_playing |-> b, progress_ms |-> 10000] : it \in ItemVariants, b \in BOOLEAN}
    \cup {NoCurrent}

NextGate ==
    \/ \E config \in GateConfigs, gap \in GateGaps, in \in GateInputs :
        /\ Len(polls) < MaxPolls
        /\ LogDeviceNowPlaying(config, gap, "ok", in.playing, in.app, FALSE)
        /\ UNCHANGED <<sessionVars, runVars>>
    \/ \E user_name \in GateUsers, gap \in GateGaps, current \in GateCurrents :
        /\ Len(polls) < MaxPolls
        /\ LogSpotifyPlaybackForUser(user_name, gap, "ok", current)
        /\ UNCHANGED <<sessionVars, runVars>>

SpecGate == Init /\ [][NextGate]_vars

(***************************************************************************)
(* Polls of one Apple TV and one Spotify account whose fetch can fail      *)
(***************************************************************************)
\* How the fetch of a device poll ends: pyatv.connect raises (line 243),
\* metadata.playing() raises AuthenticationError (line 232) or something
\* else (line 236), or the snapshot is there.
DeviceFetches == {"ok", "connect_error", "auth_error", "fetch_error"}

\* How sp.current_playback() ends (lines 225-230).
SpotifyFetches == {"ok", "error"}

FetchPlayings ==
    {[BasePlaying EXCEPT !.device_state = st] :
        st \in {"DeviceState.Playing", "DeviceState.Idle"}}

FetchCurrents ==
    {[item |-> BaseItem, device |-> [name |-> "iPhone", type |-> "Smartphone"],
      is_playing |-> TRUE, progress_ms |-> 10000],
     NoCurrent}

NextFetch ==
    \/ \E config \in GateConfigs, gap \in GateGaps, fetched \in DeviceFetches,
          playing \in FetchPlayings, sent \in BOOLEAN :
        /\ Len(polls) < MaxPolls
        /\ LogDeviceNowPlaying(config, gap, fetched, playing, App("TV"), sent)
        /\ UNCHANGED <<sessionVars, runVars>>
    \/ \E user_name \in GateUsers, gap \in GateGaps, fetched \in SpotifyFetches,
          current \in FetchCurrents :
        /\ Len(polls) < MaxPolls
        /\ LogSpotifyPlaybackForUser(user_name, gap, fetched, current)
        /\ UNCHANGED <<sessionVars, runVars>>

SpecFetch == Init /\ [][NextFetch]_vars

(***************************************************************************)
(* Polls of one Apple TV whose fetch or whose store statement can fail     *)
(***************************************************************************)
StoreFetches == DeviceFetches \cup {"store_error"}

NextStore ==
    \E config \in GateConfigs, gap \in GateGaps, fetched \in StoreFetches,
       playing \in FetchPlayings, sent \in BOOLEAN :
        /\ Len(polls) < MaxPolls
        /\ LogDeviceNowPlaying(config, gap, fetched, playing, App("TV"), sent)
        /\ UNCHANGED <<sessionVars, runVars>>

SpecStore == Init /\ [][NextStore]_vars

(***************************************************************************)
(* A sustained outage: every poll of every device fails, mail is sent      *)
(***************************************************************************)
MaxOutagePolls == 4    \* bound: polls of one device in one behaviour

\* The time between two polls: 30 or 60 minutes.
OutageGaps == {1800, 3600}

\* A poll of d that fails; _send_email, when it is called, gives True.
OutagePoll(d) ==
    \E gap \in OutageGaps :
        /\ reported[d] < MaxOutagePolls
        /\ clock' = clock + gap
        /\ CallNotifyDeviceError(d, clock + gap, TRUE)
        /\ UNCHANGED <<ingestVars, sessionVars, runVars>>

NextOutage == \E d \in Devices : OutagePoll(d)

\* The script is started again and again: every device keeps being polled.
SpecOutage == Init /\ [][NextOutage]_vars /\ \A d \in Devices : WF_vars(OutagePoll(d))

(***************************************************************************)
(* spotify_nowplaying.py: polls of two Spotify accounts                    *)
(***************************************************************************)
Users == {"Ted", "Ann"}

\* The device labels Spotify reports: a phone, and the web player, which
\* carries the same label on every account.
UserCurrents ==
    {[item |-> BaseItem, device |-> dv, is_playing |-> b, progress_ms |-> 10000] :
        dv \in {[name |-> "iPhone", type |-> "Smartphone"],
                [name |-> "Web Player (Chrome)", type |-> "Computer"]},
        b \in BOOLEAN}

\* main() of spotify_nowplaying.py, lines 381-387: a poll of one account.
NextUsers ==
    \E user_name \in Users, current \in UserCurrents :
        /\ Len(polls) < MaxPolls
        /\ LogSpotifyPlaybackForUser(user_name, 60, "ok", current)
        /\ UNCHANGED <<sessionVars, runVars>>

SpecUsers == Init /\ [][NextUsers]_vars

(***************************************************************************)
(* Polls of an Apple TV and of a Spotify account that plays on it          *)
(***************************************************************************)
\* The Apple TV named Living Room, paused or playing T1, or paused on T2.
SharedPlayings ==
    {BasePlaying, [BasePlaying EXCEPT !.device_state = "DeviceState.Playing"],
     [BasePlaying EXCEPT !.title = "T2"]}

\* The account plays on its phone or, over Spotify Connect, on the Apple TV,
\* which Spotify reports under the name the device has on the network.
SharedCurrents ==
    {[item |-> BaseItem, device |-> dv, is_playing |-> b, progress_ms |-> 10000] :
        dv \in {[name |-> "iPhone", type |-> "Smartphone"],
                [name |-> "Living Room", type |-> "TV"]},
        b \in BOOLEAN}

NextShared ==
    \/ \E config \in GateConfigs, playing \in SharedPlayings :
        /\ Len(polls) < MaxPolls
        /\ LogDeviceNowPlaying(config, 60, "ok", playing, App("TV"), FALSE)
        /\ UNCHANGED <<sessionVars, runVars>>
    \/ \E user_name \in GateUsers, current \in SharedCurrents :
        /\ Len(polls) < MaxPolls
        /\ LogSpotifyPlaybackForUser(user_name, 60, "ok", current)
        /\ UNCHANGED <<sessionVars, runVars>>

SpecShared == Init /\ [][NextShared]_vars

(***************************************************************************)
(* migrate_add_user_name.py and migrate_iphone_names.py over logs that     *)
(* hold rows of the time before the user_name column                       *)
(***************************************************************************)
\* The device name of a Spotify row of that time, which
\* migrate_add_user_name.py takes apart (lines 41-43 and 53-54).
LegacyDeviceName(user_name, raw_device_name) ==
    "Spotify (" \o user_name \o "): " \o raw_device_name

LegacyDevices == {"iPhone", "Web Player (Chrome)"}
LegacyModels == {"Smartphone", "Computer"}

\* migrate(), lines 38-66: the three UPDATE statements, one after another.
\* LIKE 'Spotify (%):%', REGEXP_EXTRACT and REGEXP_REPLACE are computed on
\* the names that occur.
MigrateAddUserName(t) ==
    LET Parts(name) == {ur \in Users \X LegacyDevices :
                            LegacyDeviceName(ur[1], ur[2]) = name}
        UserOf(name) == (CHOOSE ur \in Parts(name) : TRUE)[1]
        RawOf(name) == (CHOOSE ur \in Parts(name) : TRUE)[2]
        Unprefixed(model) ==
            IF \E m \in LegacyModels : model = "Spotify-" \o m
            THEN CHOOSE m \in LegacyModels : model = "Spotify-" \o m
            ELSE model
        step2(r) == IF r.app # None /\ r.app = "Spotify" /\ ~(r.user_name # None)
                    THEN [r EXCEPT !.user_name = IF Parts(r.device_name) # {}
                                                 THEN UserOf(r.device_name) ELSE None]
                    ELSE r
        step3(r) == IF Parts(r.device_name) # {}
                    THEN [r EXCEPT !.device_name = RawOf(r.device_name)] ELSE r
        step4(r) == IF r.device_model # None
                    THEN [r EXCEPT !.device_model = Unprefixed(r.device_model)] ELSE r
    IN  [i \in 1..Len(t) |-> step4(step3(step2(t[i])))]

\* Mutant: every row that has a user name is renamed.
MigrateIphoneNames_all(t) ==
    [i \in 1..Len(t) |->
        IF t[i].user_name # None
        THEN [t[i] EXCEPT !.device_name = t[i].device_name \o " (" \o t[i].user_name \o ")"]
        ELSE t[i]]

\* migrate_iphone_names.main, lines 33-38: the UPDATE statement.
MigrateIphoneNames(t) ==
    [i \in 1..Len(t) |->
        IF t[i].device_name \in {"iPhone", "iPad"} /\ t[i].user_name # None
        THEN [t[i] EXCEPT !.device_name = t[i].device_name \o " (" \o t[i].user_name \o ")"]
        ELSE t[i]]

\* A poll of an account at the time before the user_name column: the row as
\* migrate_add_user_name.py finds it.
LegacyPoll ==
    \E user_name \in Users, dv \in {<<"iPhone", "Smartphone">>,
                                      <<"Web Player (Chrome)", "Computer">>} :
        /\ pc = "idle"
        /\ polls = <<>>
        /\ Len(now_playing) < MaxPolls
        /\ \A i \in 1..Len(now_playing) : ~(now_playing[i].user_name # None)
        /\ clock' = clock + 60
        /\ now_playing' =
               Insert(now_playing,
                      Row(clock + 60, LegacyDeviceName(user_name, dv[1]), None, "Playing",
                          "Spotify", "T1", "A1", "L1", None, NoNum, NoNum, "Music", 10,
                          200, "Spotify-" \o dv[2], None))
        /\ UNCHANGED <<notifyVars, polls, sessionVars, runVars>>

\* migrate_add_user_name.py, lines 20-92.
MigrateAddUserNameMain ==
    /\ pc = "idle"
    /\ now_playing' = MigrateAddUserName(now_playing)
    /\ UNCHANGED <<clock, notifyVars, polls, sessionVars, runVars>>

\* migrate_iphone_names.py, lines 14-53.
MigrateIphoneNamesMain ==
    /\ pc = "idle"
    /\ now_playing' = MigrateIphoneNames(now_playing)
    /\ UNCHANGED <<clock, notifyVars, polls, sessionVars, runVars>>

\* The rows of the old time, the two migrations, and polls of the accounts
\* by spotify_nowplaying.py, which needs the user_name column.
NextMigrate ==
    \/ LegacyPoll
    \/ MigrateAddUserNameMain
    \/ MigrateIphoneNamesMain
    \/ \E user_name \in Users, current \in UserCurrents :
        /\ Len(polls) < MaxPolls
        /\ Len(now_playing) < MaxPolls
        /\ \A i \in 1..Len(now_playing) :
              now_playing[i].app = "Spotify" /\ now_playing[i].user_name # None
        /\ LogSpotifyPlaybackForUser(user_name, 60, "ok", current)
        /\ UNCHANGED <<sessionVars, runVars>>

SpecMigrate == Init /\ [][NextMigrate]_vars

(***************************************************************************)
(* backfill_device_info.py over logs of an Apple TV 4K, a second-          *)
(* generation Apple TV 4K and a HomePod mini                               *)
(***************************************************************************)
\* device_name LIKE '%HomePod%' over the device names of the model.
NameContainsHomePod(device_name) == FALSE

\* backfill_device_models, lines 19-60: a row without a device model gets one
\* from its device name.
BackfillDeviceModels(t) ==
    [i \in 1..Len(t) |->
        IF t[i].device_model # None THEN t[i]
        ELSE IF NameContainsHomePod(t[i].device_name)
        THEN [t[i] EXCEPT !.device_model = "HomePodMini"]
        ELSE IF t[i].device_name \in {"AppleTV", "Basement"}
        THEN [t[i] EXCEPT !.device_model = "AppleTV"]
        ELSE t[i]]

\* fix_media_types, lines 63-113: three UPDATE statements in turn, each over
\* the rows whose media_type is 'Unknown' (a NULL is not equal to it).
FixMediaTypes(t) ==
    [i \in 1..Len(t) |->
        IF t[i].media_type # "Unknown" THEN t[i]
        ELSE IF t[i].device_model # None /\ ContainsHomePod(t[i].device_model)
        THEN [t[i] EXCEPT !.media_type = "Music"]
        ELSE IF t[i].artist # None
        THEN [t[i] EXCEPT !.media_type = "Music"]
        ELSE IF t[i].series_name # None
        THEN [t[i] EXCEPT !.media_type = "Video"]
        ELSE t[i]]

\* main() of backfill_device_info.py, lines 152-172.
BackfillMain ==
    /\ pc = "idle"
    /\ rb_pc = "idle"
    /\ now_playing' = FixMediaTypes(BackfillDeviceModels(now_playing))
    /\ UNCHANGED <<clock, notifyVars, polls, sessionVars, runVars>>

BackfillConfigs ==
    {[name |-> "Living Room", address |-> "10.0.0.2", model |-> "DeviceModel.Gen4K"],
     [name |-> "Living Room", address |-> "10.0.0.2", model |-> "DeviceModel.AppleTV4KGen2"],
     [name |-> "Kitchen", address |-> "10.0.0.3", model |-> "DeviceModel.HomePodMini"]}

\* A song or an episode, with every media type the device can give it.
BackfillPlayings ==
    {[BasePlaying EXCEPT !.device_state = "DeviceState.Playing", !.media_type = mt,
                         !.artist = as[1], !.series_name = as[2]] :
        mt \in {"MediaType.Unknown", "MediaType.Video", "MediaType.Music", None},
        as \in {<<"A1", None>>, <<None, "S1">>}}

NextBackfill ==
    \/ \E config \in BackfillConfigs, playing \in BackfillPlayings :
        /\ Len(polls) < MaxPolls
        /\ LogDeviceNowPlaying(config, 60, "ok", playing, App("TV"), FALSE)
        /\ UNCHANGED <<sessionVars, runVars>>
    \/ BackfillMain

SpecBackfill == Init /\ [][NextBackfill]_vars

(***************************************************************************)
(* nowplaying_multi.py: one poll cycle, log_all_devices, with one task per *)
(* device under asyncio.gather                                             *)
(***************************************************************************)
MaxCyclePolls == 4     \* bound: no cycle starts with fewer polls than devices left

CycleConfig(d) == [name |-> d, address |-> "10.0.0.2", model |-> "DeviceModel.Gen4K"]

CyclePlayings == FetchPlayings

\* The awaits of a task (lines 96 and 102) and what a device can do to them:
\* answer both, or hold one of them for ever.
Hangs == {"no", "connect", "fetch"}

\* log_all_devices, lines 336-338: a coroutine per device, handed to
\* asyncio.gather with return_exceptions left False.
LogAllDevices_gather ==
    /\ cycle = "idle"
    /\ Len(polls) + Cardinality(Devices) <= MaxCyclePolls
    /\ cycle' = "gathering"
    /\ tasks' = [d \in Devices |-> "created"]
    /\ hung' \in [Devices -> Hangs]
    /\ UNCHANGED <<clock, notifyVars, ingestVars, sessionVars, connections, other_run>>

\* log_device_now_playing, line 92: con = init_duckdb(), before the try.
\* duckdb.connect raises when another process has the store file open (a run
\* of analyze_sessions.py or of spotify_nowplaying.py) or the file cannot be
\* read; the exception leaves the coroutine.
Task_init_duckdb(d) ==
    /\ cycle = "gathering"
    /\ tasks[d] = "created"
    /\ \E opened \in {b \in BOOLEAN : b => CanConnect("this")} :
        /\ tasks' = [tasks EXCEPT ![d] = IF opened THEN "connecting" ELSE "raised"]
        /\ connections' = IF opened THEN [connections EXCEPT !["this"] = @ \cup {d}]
                          ELSE connections
    /\ UNCHANGED <<clock, notifyVars, ingestVars, sessionVars>>
    /\ UNCHANGED <<other_run, cycle, hung>>

\* log_device_now_playing, lines 94-98 and 243-248: await pyatv.connect.  It is
\* awaited without a timeout: a connect that does not complete leaves the task
\* where it is.  A connect that raises is reported and the task ends.
Task_connect(d) ==
    /\ cycle = "gathering"
    /\ tasks[d] = "connecting"
    /\ hung[d] # "connect"
    /\ \E connected \in BOOLEAN :
        IF connected
        THEN /\ tasks' = [tasks EXCEPT ![d] = "fetching"]
             /\ UNCHANGED <<clock, notifyVars, ingestVars, connections>>
        ELSE /\ tasks' = [tasks EXCEPT ![d] = "done"]
             /\ connections' = [connections EXCEPT !["this"] = @ \ {d}]
             /\ \E sent \in BOOLEAN :
                 LogDeviceNowPlaying(CycleConfig(d), 60, "connect_error", BasePlaying,
                                     NoApp, sent)
    /\ UNCHANGED <<sessionVars, other_run, cycle, hung>>

\* log_device_now_playing, lines 100-248: await atv.metadata.playing(), awaited
\* without a timeout, and the rest of the task, which does not await.
Task_playing(d) ==
    /\ cycle = "gathering"
    /\ tasks[d] = "fetching"
    /\ hung[d] # "fetch"
    /\ tasks' = [tasks EXCEPT ![d] = "done"]
    /\ connections' = [connections EXCEPT !["this"] = @ \ {d}]
    /\ \E fetched \in {"ok", "auth_error", "fetch_error"}, playing \in CyclePlayings,
          sent \in BOOLEAN :
        LogDeviceNowPlaying(CycleConfig(d), 60, fetched, playing, App("TV"), sent)
    /\ UNCHANGED <<sessionVars, other_run, cycle, hung>>

\* log_all_devices, lines 338-344: gather returns when every task has returned.
LogAllDevices_return ==
    /\ cycle = "gathering"
    /\ \A d \in Devices : tasks[d] = "done"
    /\ cycle' = "done"
    /\ UNCHANGED <<clock, notifyVars, ingestVars, sessionVars>>
    /\ UNCHANGED <<connections, other_run, tasks, hung>>

\* log_all_devices, line 338, and lines 349-350: gather hands the first
\* exception of a task to its caller; it leaves log_all_devices and
\* run_until_complete, and the process ends with the tasks that have not
\* returned left where they are.
LogAllDevices_raise ==
    /\ cycle = "gathering"
    /\ \E d \in Devices : tasks[d] = "raised"
    /\ cycle' = "raised"
    /\ tasks' = [d \in Devices |->
                    IF tasks[d] \in {"done", "raised"} THEN tasks[d] ELSE "abandoned"]
    /\ connections' = [connections EXCEPT !["this"] = {}]
    /\ UNCHANGED <<clock, notifyVars, ingestVars, sessionVars>>
    /\ UNCHANGED <<other_run, hung>>

\* The next run of the script.
NextRun ==
    /\ cycle \in {"done", "raised"}
    /\ cycle' = "idle"
    /\ tasks' = [d \in Devices |-> "none"]
    /\ hung' = [d \in Devices |-> "no"]
    /\ UNCHANGED <<clock, notifyVars, ingestVars, sessionVars, connections, other_run>>

NextCycle ==
    \/ LogAllDevices_gather
    \/ \E d \in Devices : Task_init_duckdb(d)
    \/ \E d \in Devices : Task_connect(d)
    \/ \E d \in Devices : Task_playing(d)
    \/ LogAllDevices_return
    \/ LogAllDevices_raise
    \/ NextRun

SpecCycle == Init /\ [][NextCycle]_vars

\* The event loop runs every task that can take a step, and the script is
\* started again.
SpecCycleFair == SpecCycle /\ WF_vars(NextCycle)


(***************************************************************************)
(* The poll cycle with the notifier's steps in view                        *)
(***************************************************************************)
\* The event loop runs one task at a time, from one await to the next.
\* notify_device_error (lines 235, 239 and 246) and the INSERT (line 194) are
\* plain calls: json.dump, smtplib and con.execute do not await, so the task
\* that makes them keeps the loop until they return.
LoopFree == pc = "idle" /\ \A d \in Devices : tasks[d] # "handling"

\* A step of the task of d that the loop can start: one of the steps above,
\* for a device that connects and whose answer, when it gives one, is read
\* (no device holds an await for ever here).
Task_step(d) ==
    /\ LoopFree
    /\ \/ Task_init_duckdb(d)
       \/ Task_connect(d) /\ tasks'[d] = "fetching"
       \/ Task_playing(d) /\ polls'[Len(polls')].outcome \in {"emit", "suppress", "discard"}

\* log_device_now_playing, lines 102 and 236-239: metadata.playing() raises,
\* the handler calls notify_device_error, which counts the failure.
Task_except(d) ==
    /\ cycle = "gathering"
    /\ LoopFree
    /\ tasks[d] = "fetching"
    /\ hung[d] # "fetch"
    /\ RecordDeviceError_begin(d)
    /\ tasks' = [tasks EXCEPT ![d] = "handling"]
    /\ UNCHANGED <<clock, ingestVars, sessionVars, connections, other_run, cycle, hung>>

\* log_device_now_playing, lines 240-248: notify_device_error has returned,
\* the finally clauses close the device and the store connection.
Task_finally(d) ==
    /\ cycle = "gathering"
    /\ tasks[d] = "handling"
    /\ pc = "idle"
    /\ tasks' = [tasks EXCEPT ![d] = "done"]
    /\ connections' = [connections EXCEPT !["this"] = @ \ {d}]
    /\ UNCHANGED <<clock, notifyVars, ingestVars, sessionVars, other_run, cycle, hung>>

NextLoop ==
    \/ LoopFree /\ LogAllDevices_gather /\ hung' = [d \in Devices |-> "no"]
    \/ \E d \in Devices : Task_step(d)
    \/ \E d \in Devices : Task_except(d)
    \/ RecordDeviceError_check
    \/ RecordDeviceError_send
    \/ \E d \in Devices : Task_finally(d)
    \/ LoopFree /\ LogAllDevices_return
    \/ LoopFree /\ LogAllDevices_raise
    \/ NextRun

SpecLoop == Init /\ [][NextLoop]_vars


(***************************************************************************)
(* The rebuild over logs of one Apple TV: segmentation                     *)
(***************************************************************************)
SessionConfig ==
    [name |-> "Living Room", address |-> "10.0.0.2", model |-> "DeviceModel.Gen4K"]

\* Gaps of 5, 10 and 15 minutes between two polls.
SessionGaps == {300, 600, 900}

\* Two titles, one of them reported with media type Video or Unknown; no
\* position is reported.
SessionPlayings ==
    {[BasePlaying EXCEPT !.device_state = "DeviceState.Playing", !.title = tm[1],
                         !.media_type = tm[2], !.position = NoNum,
                         !.total_time = NoNum] :
        tm \in {<<"T1", "MediaType.Video">>, <<"T1", "MediaType.Unknown">>,
                <<"T2", "MediaType.Video">>}}

SessionInputs == {[gap |-> g, playing |-> p] : g \in SessionGaps, p \in SessionPlayings}

\* A poll of the device; the database is held by one process at a time, so
\* no poll runs while create_sessions_table does.
SessionPoll(inputs) ==
    \E in \in inputs :
        /\ rb_pc = "idle"
        /\ Len(polls) < MaxPolls
        /\ LogDeviceNowPlaying(SessionConfig, in.gap, "ok", in.playing, App("TV"), FALSE)
        /\ UNCHANGED <<sessionVars, runVars>>

NextSessions ==
    \/ SessionPoll(SessionInputs)
    \/ CreateSessionsTable_drop
    \/ CreateSessionsTable_create

SpecSessions == Init /\ [][NextSessions]_vars

\* create_sessions_table, line 47: the CREATE TABLE ... AS statement raises (the
\* disk is full, the query runs out of memory) or the process is stopped before
\* it.  The DROP statements of lines 40 and 44 were committed on their own, no
\* transaction spans the statements, so what they did stays; the error leaves
\* create_sessions_table and main() prints it (lines 288-292).
CreateSessionsTable_raise ==
    /\ rb_pc = "dropped"
    /\ rb_pc' = "idle"
    /\ UNCHANGED <<viewing_sessions, lastRebuild>>
    /\ UNCHANGED <<clock, notifyVars, ingestVars, runVars>>

NextRebuild ==
    \/ NextSessions
    \/ CreateSessionsTable_raise

SpecRebuild == Init /\ [][NextRebuild]_vars

(***************************************************************************)
(* The rebuild over logs of one Apple TV playing one title: the metrics    *)
(***************************************************************************)
\* position and total_time as reported: nothing, a duration of 0, no
\* duration, and positions 15, 30 and 180 seconds apart, below and beyond
\* the duration.
MetricReadings ==
    { <<NoNum, NoNum>>, <<10, 200>>, <<25, NoNum>>, <<40, 0>>, <<10, 0>>,
      <<190, 200>>, <<190, 60>>, <<190, NoNum>> }

MetricPlaying(pd) ==
    [BasePlaying EXCEPT !.device_state = "DeviceState.Playing",
                        !.position = pd[1], !.total_time = pd[2]]

\* Half a minute after the previous poll (the same session) with any reading,
\* or 15 minutes after it (a new session) with no reading or the first one.
MetricInputs ==
    {[gap |-> 30, playing |-> MetricPlaying(pd)] : pd \in MetricReadings}
    \cup {[gap |-> 900, playing |-> MetricPlaying(pd)] :
            pd \in {<<NoNum, NoNum>>, <<10, 200>>}}

NextMetrics ==
    \/ SessionPoll(MetricInputs)
    \/ CreateSessionsTable_drop
    \/ CreateSessionsTable_create

SpecMetrics == Init /\ [][NextMetrics]_vars


(***************************************************************************)
(* The rebuild over logs of one title reported with two media types        *)
(***************************************************************************)
MaxGroupPolls == 4     \* bound: polls made in one behaviour

\* One title, reported with media type Video or Unknown, 5 or 10 minutes
\* after the previous poll.
GroupInputs ==
    {[gap |-> g, playing |-> p] :
        g \in {300, 600},
        p \in {q \in SessionPlayings : q.title = "T1"}}

GroupPoll ==
    \E in \in GroupInputs :
        /\ rb_pc = "idle"
        /\ Len(polls) < MaxGroupPolls
        /\ LogDeviceNowPlaying(SessionConfig, in.gap, "ok", in.playing, App("TV"), FALSE)
        /\ UNCHANGED <<sessionVars, runVars>>

NextGroups ==
    \/ GroupPoll
    \/ CreateSessionsTable_drop
    \/ CreateSessionsTable_create

SpecGroups == Init /\ [][NextGroups]_vars


(***************************************************************************)
(* Claims about the ingest gate                                            *)
(***************************************************************************)
MediaIdentity(e) == <<e.title, e.artist, e.album, e.series_name, e.season, e.episode>>

\* The rows a poll found in the table (the table only grows).
RowsBefore(p) == SubSeq(now_playing, 1, p.before)

\* The indices of the rows stored before poll p for p's own source identity.
OwnRows(p) ==
    {i \in 1..p.before : /\ now_playing[i].device_name = p.candidate.device_name
                         /\ now_playing[i].user_name = p.candidate.user_name}

\* The gate of the specification: Paused, after a Paused event of the same
\* source with the same media identity and the same app.
MustSuppress(p) ==
    /\ p.candidate.state = "Paused"
    /\ OwnRows(p) # {}
    /\ LET previous == now_playing[Latest(now_playing, OwnRows(p))]
       IN  /\ previous.state = "Paused"
           /\ MediaIdentity(previous) = MediaIdentity(p.candidate)
           /\ previous.app = p.candidate.app

Gated(p) == p.outcome \in {"emit", "suppress"}

\* C1: a poll that reaches the gate, on either path, is suppressed exactly
\* when the candidate is Paused and the previous stored event of its source
\* is Paused with the same media identity and the same app.
C1_GateIff ==
    \A i \in 1..Len(polls) :
        Gated(polls[i]) => (polls[i].outcome = "suppress" <=> MustSuppress(polls[i]))

\* The same playback state, media identity and app.
SameMedia(a, b) ==
    /\ a.state = b.state
    /\ MediaIdentity(a) = MediaIdentity(b)
    /\ a.app = b.app

\* The same snapshot: rows that differ in nothing but the time of the poll.
SameSnapshot(a, b) == [a EXCEPT !.ts = 0] = [b EXCEPT !.ts = 0]

\* Polls i < j of one source that got the same Paused snapshot, with no row of
\* that source stored after poll i and before poll j.

RepeatedPaused(i, j) ==
    LET p == polls[i]
        q == polls[j]
    IN  /\ i < j
        /\ Gated(p) /\ Gated(q)
        /\ p.path = q.path
        /\ p.device_name = q.device_name /\ p.user_name = q.user_name
        /\ p.candidate.state = "Paused"
        /\ SameSnapshot(p.candidate, q.candidate)
        /\ \A k \in OwnRows(q) : k <= p.before + (IF p.outcome = "emit" THEN 1 ELSE 0)

\* The stored event that stands for the snapshot of poll q: the latest row of
\* its source is that snapshot.
StoredOnce(q) ==
    /\ OwnRows(q) # {}
    /\ SameMedia(now_playing[Latest(now_playing, OwnRows(q))], q.candidate)

\* C7: when a source is polled twice in a row with the same Paused snapshot,
\* the second poll adds no row and the source's latest row is that snapshot,
\* so exactly one stored event stands for it.
C7_DedupIdempotent ==
    \A i, j \in 1..Len(polls) :
        RepeatedPaused(i, j) => (polls[j].outcome = "suppress" /\ StoredOnce(polls[j]))


(***************************************************************************)
(* Claims about the failure notifier                                       *)
(***************************************************************************)
\* The call of record_device_error that completed last, and the call for the
\* same device before it.
LastErrorDevice == lastCall.device
LastIsError ==
    /\ pc = "idle"
    /\ lastCall.device \in Devices
    /\ calls[lastCall.device].fn = "record_device_error"
Cur == calls[lastCall.device]
Prev == lastCall.prev

\* C2: starting from no stored failure state, the first two consecutive
\* failures attempt no send and the third attempts exactly one; a fourth
\* failure inside the cooldown window opened by the third's notification
\* attempts none; a single failure right after a success attempts none.
C2_Hysteresis ==
    LastIsError =>
        /\ (Cur.fresh /\ Cur.count \in {1, 2}) => Cur.attempts = 0
        /\ (Cur.fresh /\ Cur.count = 3) => Cur.attempts = 1
        /\ ( /\ Cur.fresh
             /\ Cur.count = 4
             /\ Prev.ret = "True"
             /\ Cur.at - Prev.at < ERROR_COOLDOWN_MINUTES * 60 )
           => Cur.attempts = 0
        /\ Prev.fn = "record_device_success" => (Cur.attempts = 0 /\ Cur.ret = "False")

\* A fourth failure, made at once, was suppressed by the third's notification.
C2_Witness ==
    /\ LastIsError
    /\ Cur.fresh
    /\ Cur.count = 4
    /\ Prev.count = 3
    /\ Prev.attempts = 1
    /\ Prev.ret = "True"
    /\ Cur.at = Prev.at
    /\ Cur.attempts = 0

\* C9: in every state, also between the save and the checks and the send of a
\* call in progress, the count in the file is the number of failures reported
\* since the last success, it is the call's own post-increment count, and no
\* call carries state over to the next.
C9_CountPersistedFirst ==
    /\ \A d \in Devices : StoredCount(d) = reported[d]
    /\ pc \in {"persisted", "send"} =>
           /\ frame.current_count = StoredCount(frame.device)
           /\ frame.current_count >= 1
    /\ pc = "idle" => frame = NoFrame

\* The second failure is in the file while its call has checked nothing yet.
C9_Witness ==
    /\ pc = "persisted"
    /\ frame.current_count = 2
    /\ StoredCount(frame.device) = 2
    /\ reported[frame.device] = 2

\* C10: a send is attempted only by a call whose post-increment count has
\* reached the threshold; a call below it returns False with no attempt.
C10_ThresholdGuardsSend ==
    /\ pc = "send" => frame.current_count >= CONSECUTIVE_FAILURES_THRESHOLD
    /\ \A d \in Devices :
           calls[d].fn = "record_device_error" =>
               /\ calls[d].attempts = 1 => calls[d].count >= CONSECUTIVE_FAILURES_THRESHOLD
               /\ calls[d].count < CONSECUTIVE_FAILURES_THRESHOLD =>
                      (calls[d].attempts = 0 /\ calls[d].ret = "False")

\* A call below the threshold returned False, then the next one attempted a send.
C10_Witness ==
    /\ LastIsError
    /\ Prev.fn = "record_device_error"
    /\ Prev.count = 2
    /\ Prev.attempts = 0
    /\ Prev.ret = "False"
    /\ Cur.count = 3
    /\ Cur.attempts = 1


\* Seconds from the notification a call found recorded to the call.
SecondsSinceNotified(call) == call.at - FromIsoFormat(call.last)

\* C11: a call of record_device_error that finds a notification for its own
\* device recorded less than the cooldown ago attempts no send and returns
\* False, so two sent notifications for one device are at least the cooldown
\* apart; a call at or past the threshold that finds none so recent for its
\* own device attempts a send, whatever is recorded for the other devices.
C11_Cooldown ==
    \A d \in Devices :
        calls[d].fn = "record_device_error" =>
            /\ ( /\ calls[d].last # None
                 /\ SecondsSinceNotified(calls[d]) < ERROR_COOLDOWN_MINUTES * 60 )
               => (calls[d].attempts = 0 /\ calls[d].ret = "False")
            /\ (calls[d].ret = "True" /\ calls[d].last # None)
               => SecondsSinceNotified(calls[d]) >= ERROR_COOLDOWN_MINUTES * 60
            /\ ( /\ calls[d].count >= CONSECUTIVE_FAILURES_THRESHOLD
                 /\ \/ calls[d].last = None
                    \/ SecondsSinceNotified(calls[d]) >= ERROR_COOLDOWN_MINUTES * 60 )
               => calls[d].attempts = 1

\* One device was notified a second time, a full cooldown after the first,
\* while the other device had been notified in between.
C11_Witness ==
    \E d, e \in Devices :
        /\ d # e
        /\ calls[d].fn = "record_device_error"
        /\ calls[d].ret = "True"
        /\ calls[d].last # None
        /\ SecondsSinceNotified(calls[d]) = ERROR_COOLDOWN_MINUTES * 60
        /\ StoredNotified(e) # None
        /\ FromIsoFormat(StoredNotified(e)) > FromIsoFormat(calls[d].last)
        /\ calls[d].at - FromIsoFormat(StoredNotified(e)) < ERROR_COOLDOWN_MINUTES * 60


\* Two last_notified entries are the same: both missing, or the same timestamp.
SameEntry(a, b) ==
    IF a # None THEN b # None /\ FromIsoFormat(a) = FromIsoFormat(b) ELSE ~(b # None)

\* C12: a call of record_device_error that attempted a send and returned True
\* left last_notified of its device at the time of the call in the file; one
\* that attempted a send and returned False left the entry as it found it,
\* and the next failure of the device attempts a send again.
C12_SendOutcome ==
    /\ \A d \in Devices :
           (calls[d].fn = "record_device_error" /\ calls[d].attempts = 1) =>
               /\ calls[d].ret \in {"True", "False"}
               /\ calls[d].ret = "True" =>
                      /\ StoredNotified(d) # None
                      /\ FromIsoFormat(StoredNotified(d)) = calls[d].at
               /\ calls[d].ret = "False" => SameEntry(StoredNotified(d), calls[d].last)
    /\ ( /\ LastIsError
         /\ Prev.fn = "record_device_error"
         /\ Prev.attempts = 1
         /\ Prev.ret = "False" )
       => Cur.attempts = 1

\* A send failed and recorded nothing; the next failure's send went out and
\* was recorded.
C12_Witness ==
    /\ LastIsError
    /\ Prev.fn = "record_device_error"
    /\ Prev.attempts = 1
    /\ Prev.ret = "False"
    /\ SameEntry(Cur.last, Prev.last)
    /\ Cur.attempts = 1
    /\ Cur.ret = "True"
    /\ StoredNotified(lastCall.device) # None
    /\ FromIsoFormat(StoredNotified(lastCall.device)) = Cur.at


\* C13: once record_device_success has returned for a device, and until the
\* next failure of the device is recorded, the file holds no failure count
\* for it, whatever the count was; a second call changes nothing, and a call
\* for a device without a count changes nothing.
C13_SuccessClears ==
    /\ \A d \in Devices :
           (calls[d].fn = "record_device_success" /\ frame.device # d) =>
               ErrorKey(d) \notin DOMAIN error_state.failure_counts
    /\ \A d \in Devices :
           LET once == SuccessState(error_state, ErrorKey(d))
           IN  /\ ErrorKey(d) \notin DOMAIN once.failure_counts
               /\ SuccessState(once, ErrorKey(d)) = once
               /\ ErrorKey(d) \notin DOMAIN error_state.failure_counts
                      => once = error_state

\* A device at four failures reported a success and has no count any more,
\* while the other device keeps its own.
C13_Witness ==
    /\ pc = "idle"
    /\ lastCall.device \in Devices
    /\ Cur.fn = "record_device_success"
    /\ Prev.fn = "record_device_error"
    /\ Prev.count = 4
    /\ ErrorKey(lastCall.device) \notin DOMAIN error_state.failure_counts
    /\ error_state.failure_counts # EmptyDict


\* C14: once record_device_success has returned for a device, and until the
\* next failure of the device is recorded, the file holds neither a failure
\* count nor a last_notified entry for it.
C14_ResetToAbsent ==
    \A d \in Devices :
        (calls[d].fn = "record_device_success" /\ frame.device # d) =>
            /\ ErrorKey(d) \notin DOMAIN error_state.failure_counts
            /\ ErrorKey(d) \notin DOMAIN error_state.last_notified


\* C15: whatever the failure-state file holds when it is loaded (nothing,
\* unparseable text, an object without the failure_counts or the last_notified
\* mapping, a malformed last_notified timestamp), no call of
\* record_device_success or record_device_error raises.
C15_NeverRaises == \A d \in Devices : calls[d].ret # "raised"

\* C16: no update of the failure-state file is lost, whatever the order in
\* which concurrent tasks and overlapping runs of the poller call the
\* notifier: the stored count of every device is the number of its failures
\* since its last success, and while a call is between its load and its last
\* save no other run is in a position to write the file.
C16_NoLostUpdate ==
    /\ \A d \in Devices : StoredCount(d) = reported[d]
    /\ pc # "idle" => connections["other"] = {}

\* Two tasks of this run are open, a call is between its two saves, the other
\* run has made calls of its own and has been refused the store.
C16_Witness ==
    /\ pc = "send"
    /\ connections["this"] = Devices
    /\ other_run.refused
    /\ other_run.called > 0
    /\ \A d \in Devices : StoredCount(d) > 0

(***************************************************************************)
(* Claims about the poll cycle                                             *)
(***************************************************************************)
\* C17: a poll cycle ends although the connect or the fetch of one device
\* never completes: once the tasks are gathered, log_all_devices eventually
\* returns or raises.
C17_CycleEnds == (cycle = "gathering") ~> (cycle \in {"done", "raised"})

\* C18: no error met while one device is processed leaves that device's task,
\* keeps another device's task from completing, or ends the poll process.
C18_Isolation ==
    /\ cycle # "raised"
    /\ \A d \in Devices : tasks[d] \notin {"raised", "abandoned"}

\* The source a poll is about: the device, or the Spotify account.
PollSource(p) == IF p.path = "device" THEN p.device_name ELSE p.user_name

FailedFetch(p) == p.outcome \in {"connect_error", "auth_error", "fetch_error", "error"}

\* The poll that has just ended called fn of the notifier for the source.
NotifierCalled(source, fn) ==
    /\ lastCall.device = source
    /\ calls[source].fn = fn
    /\ calls[source].at = clock

\* C19: every poll, of a device or of a Spotify account, calls the notifier
\* for its source: record_device_error when the connect, the authentication
\* or the fetch failed, record_device_success when the snapshot was fetched.
C19_FetchFeedsNotifier ==
    polls # <<>> =>
        LET p == polls[Len(polls)]
        IN  IF FailedFetch(p)
            THEN NotifierCalled(PollSource(p), "record_device_error")
            ELSE NotifierCalled(PollSource(p), "record_device_success")

(***************************************************************************)
(* Claims about the session rebuild                                        *)
(***************************************************************************)
\* A rebuild has run to its end, the log it read, and the rows it left.
Rebuilt == lastRebuild.made
RebuiltLog == SubSeq(now_playing, 1, lastRebuild.len)
TableRows == {viewing_sessions.rows[n] : n \in 1..Len(viewing_sessions.rows)}

\* The events a row stands for: those of the row's device, media and media
\* type from its start to its end.
RowPartition(r) ==
    <<r.device_name, r.title, r.series_name, r.season, r.episode, r.artist, r.album>>

MembersOf(t, r) ==
    {i \in Plays(t) : /\ PartitionKey(t[i]) = RowPartition(r)
                      /\ t[i].media_type = r.media_type
                      /\ r.session_start <= t[i].ts
                      /\ t[i].ts <= r.session_end}

KnownPositions(t, M) == {t[i].position : i \in M} \ {NoNum}
KnownDurations(t, M) == {t[i].duration : i \in M} \ {NoNum}

\* Two events of a partition that follow one another.
Consecutive(t, a, b) ==
    /\ b \in InPartition(t, a)
    /\ t[a].ts < t[b].ts
    /\ ~\E c \in InPartition(t, a) : t[a].ts < t[c].ts /\ t[c].ts < t[b].ts

\* Two events are in one run when no gap between consecutive events of their
\* partition, from the earlier one to the later one, exceeds the threshold.
SameRun(t, i, j) ==
    /\ j \in InPartition(t, i)
    /\ \A a, b \in InPartition(t, i) :
          ( /\ Consecutive(t, a, b)
            /\ (t[i].ts <= t[a].ts \/ t[j].ts <= t[a].ts)
            /\ (t[b].ts <= t[i].ts \/ t[b].ts <= t[j].ts) )
          => t[b].ts - t[a].ts <= SESSION_GAP_MINUTES * 60

\* The events of i's run that carry i's media type: what one row aggregates.
RunGroup(t, i) ==
    {j \in InPartition(t, i) : SameRun(t, i, j) /\ t[j].media_type = t[i].media_type}

GroupWatchTime(t, G) ==
    WatchTime({t[j].position : j \in G}, {t[j].ts : j \in G})

\* A log of three events of one media, 5 and then 15 minutes apart: the
\* events at t = 0, 5 and 20 minutes.
ThreeEventLog(t) ==
    /\ Len(t) = 3
    /\ Plays(t) = {1, 2, 3}
    /\ InPartition(t, 1) = {1, 2, 3}
    /\ t[2].media_type = t[1].media_type /\ t[3].media_type = t[1].media_type
    /\ t[2].ts = t[1].ts + 300
    /\ t[3].ts = t[1].ts + 1200

C4_WatchTime ==
    Rebuilt =>
        \A r \in TableRows :
            LET M == MembersOf(RebuiltLog, r)
                P == KnownPositions(RebuiltLog, M)
            IN  /\ r.num_entries = Cardinality(M)
                /\ IF P # {}
                   THEN \E lo, hi \in P :
                            /\ \A p \in P : lo <= p /\ p <= hi
                            /\ r.watch_time_seconds = hi - lo
                   ELSE r.watch_time_seconds = r.session_end - r.session_start

\* Positions 10 and 190 in one session gave a watch time of 180.
C4_Witness ==
    /\ Rebuilt
    /\ \E r \in TableRows :
          /\ KnownPositions(RebuiltLog, MembersOf(RebuiltLog, r)) = {10, 190}
          /\ r.watch_time_seconds = 180

\* C5: the completion_pct of every row of the rebuilt table is the largest
\* known position over the largest known duration, times 100 and rounded to
\* one decimal, when that duration is positive and a position is known, and
\* is missing otherwise; it is not cut off at 100.
C5_CompletionPct ==
    Rebuilt =>
        \A r \in TableRows :
            LET M == MembersOf(RebuiltLog, r)
                P == KnownPositions(RebuiltLog, M)
                D == KnownDurations(RebuiltLog, M)
                c == r.completion_pct
            IN  /\ r.num_entries = Cardinality(M)
                /\ IF P # {} /\ \E d \in D : d > 0
                   THEN \E p \in P, d \in D :
                            /\ \A q \in P : q <= p
                            /\ \A e \in D : e <= d
                            /\ 2 * d * c - d <= 2000 * p
                            /\ 2000 * p < 2 * d * c + d
                   ELSE c = NoNum

\* A session whose position went beyond its duration kept a percentage
\* above 100.
C5_Witness ==
    /\ Rebuilt
    /\ \E r \in TableRows :
          /\ r.max_position_reached > r.media_duration
          /\ r.media_duration > 0
          /\ r.completion_pct > 1000

\* The row of the table for the group of event i, if there is one.
RowsOfGroup(t, i) ==
    {r \in TableRows : /\ RowPartition(r) = PartitionKey(t[i])
                       /\ r.media_type = t[i].media_type
                       /\ r.session_id = SessionId(t, i)}

C8_FullReplace ==
    Rebuilt =>
        /\ viewing_sessions = [exists |-> TRUE, rows |-> SessionsQuery(RebuiltLog)]
        /\ lastRebuild.again => viewing_sessions = lastRebuild.old

\* Two rebuilds in a row of a log with a session left the same table.
C8_Witness ==
    /\ Rebuilt
    /\ lastRebuild.again
    /\ viewing_sessions.rows # <<>>
    /\ viewing_sessions = lastRebuild.old

\* The last rebuild did not run to its end, and there was a table before it.
FailedRebuild ==
    /\ rb_pc = "idle"
    /\ ~lastRebuild.made
    /\ "old" \in DOMAIN lastRebuild
    /\ lastRebuild.old.exists

\* C20: the replacement of the session table is atomic: a reader, which gets
\* at the database between two rebuilds, finds after a rebuild that failed
\* part-way the table that was there before it.
C20_AtomicReplace == FailedRebuild => viewing_sessions = lastRebuild.old

(***************************************************************************)
(* Claims about the event log                                              *)
(***************************************************************************)
\* The number of rows poll i appended.
Appended(i) ==
    (IF i = Len(polls) THEN Len(now_playing) ELSE polls[i + 1].before) - polls[i].before

\* C21: every row of now_playing has state Playing or Paused; a poll whose
\* source reported another state, or nothing playing, appended nothing; the
\* rows create_sessions_table reads are Playing or Paused.
C21_OnlyPlayingPaused ==
    /\ \A k \in 1..Len(now_playing) : now_playing[k].state \in {"Playing", "Paused"}
    /\ \A i \in 1..Len(polls) :
          polls[i].raw.state \notin {"Playing", "Paused"} => Appended(i) = 0
    /\ \A k \in Plays(now_playing) : now_playing[k].state \in {"Playing", "Paused"}

\* After a row was stored, the device reported Stopped and the Spotify account
\* had nothing playing.
C21_Witness ==
    /\ Len(polls) = 3
    /\ polls[1].outcome = "emit"
    /\ polls[2].path = "device" /\ polls[2].raw.state = "Stopped"
    /\ polls[3].path = "spotify" /\ polls[3].outcome = "discard"
    /\ Len(now_playing) = 1

\* pyatv's device models: the Apple TV boxes and the HomePod speakers.
BoxClass(device_model) == device_model \in {"Gen4K", "AppleTV4KGen2"}
SpeakerClass(device_model) == device_model \in {"HomePodMini"}

\* The row an emitting poll appended, as the table holds it now.
StoredRow(p) == now_playing[p.before + 1]

\* C22: the media type stored for an observation of a device is the raw type
\* when the raw type is explicit; when the raw type is Unknown or missing it is
\* Music on a HomePod model and Video on an Apple TV model.
C22_InferenceOnly ==
    \A i \in 1..Len(polls) :
        (polls[i].path = "device" /\ polls[i].outcome = "emit") =>
            LET raw == polls[i].raw.media_type
                r == StoredRow(polls[i])
            IN  IF raw \in {"Unknown", None}
                THEN /\ SpeakerClass(r.device_model) => r.media_type = "Music"
                     /\ BoxClass(r.device_model) => r.media_type = "Video"
                ELSE r.media_type = raw

\* C25: the event log is append-only: a step leaves every row of now_playing
\* as it is, and a row it appends is not older than the rows of its source.
C25_AppendOnly ==
    [][/\ Len(now_playing') >= Len(now_playing)
       /\ \A k \in 1..Len(now_playing) : now_playing'[k] = now_playing[k]
       /\ \A n \in (Len(now_playing) + 1)..Len(now_playing') :
             \A k \in 1..Len(now_playing) :
                 (/\ now_playing[k].device_name = now_playing'[n].device_name
                  /\ now_playing[k].user_name = now_playing'[n].user_name)
                     => now_playing[k].ts <= now_playing'[n].ts]_vars

\* C23: no two rows of now_playing with the same device_name belong to two
\* different users: sources of two users that report the same device label
\* are stored under different device names.
C23_NoCollision ==
    \A i, j \in 1..Len(now_playing) :
        now_playing[i].device_name = now_playing[j].device_name
            => now_playing[i].user_name = now_playing[j].user_name

\* C24: a poll whose gate decides to emit appends its one candidate row to
\* now_playing; a poll that is suppressed, or whose state is discarded, leaves
\* now_playing as it is.
C24_FrameEffect ==
    [][polls' # polls =>
          LET p == polls'[Len(polls')]
          IN  IF p.outcome = "emit"
              THEN now_playing' = Append(now_playing, p.candidate)
              ELSE now_playing' = now_playing]_vars

\* A poll that emitted, one that was suppressed and one that was discarded.
C24_Witness ==
    /\ Len(polls) = 3
    /\ polls[1].outcome = "emit"
    /\ polls[2].outcome = "suppress"
    /\ polls[3].outcome = "discard"
    /\ Len(now_playing) = 1

(***************************************************************************)
(* Claims about the sessions of the rebuilt table                          *)
(***************************************************************************)
\* The events the query groups with event i, and whether some of them carry
\* a position reading while others lack it.
GroupOf(t, i) == GroupMembers(t, GroupKey(t, i))
MixedReadings(t, G) ==
    /\ \E j \in G : t[j].position # NoNum
    /\ \E j \in G : t[j].position = NoNum

\* C26: after a rebuild, a group of events in which one event carries a
\* position reading and another lacks it has a watch time above zero.
C26_NotZeroed ==
    Rebuilt =>
        \A i \in Plays(RebuiltLog) :
            MixedReadings(RebuiltLog, GroupOf(RebuiltLog, i))
                => GroupWatchTime(RebuiltLog, GroupOf(RebuiltLog, i)) > 0

\* The events that come right before event i in its partition (one or none).
Previous(t, i) == {a \in Plays(t) : Consecutive(t, a, i)}

C29_OneRowPerSession ==
    Rebuilt =>
        \A r1, r2 \in TableRows :
            (RowPartition(r1) = RowPartition(r2) /\ r1.session_id = r2.session_id)
                => r1 = r2

\* The member events of a row: the events of the log whose group it is.
Members(t, r) == {i \in Plays(t) : r \in RowsOfGroup(t, i)}

\* C30: every row of the rebuilt table has member events; its session_start
\* is the earliest and its session_end the latest of their timestamps, and
\* its num_entries is their number; so session_start <= session_end,
\* num_entries >= 1 and watch_time_seconds >= 0.
C30_RowAggregates ==
    Rebuilt =>
        \A r \in TableRows :
            LET M == Members(RebuiltLog, r)
            IN  /\ M # {}
                /\ \E i \in M : RebuiltLog[i].ts = r.session_start
                /\ \E i \in M : RebuiltLog[i].ts = r.session_end
                /\ \A i \in M : /\ r.session_start <= RebuiltLog[i].ts
                                 /\ RebuiltLog[i].ts <= r.session_end
                /\ r.num_entries = Cardinality(M)
                /\ r.session_start <= r.session_end
                /\ r.num_entries >= 1
                /\ r.watch_time_seconds >= 0

\* Four events of one session: the first and the last are the two members of
\* one row, and the two between them are the members of another.
C30_Witness ==
    /\ Rebuilt
    /\ Len(RebuiltLog) = 4
    /\ \E r \in TableRows : /\ Members(RebuiltLog, r) = {1, 4}
                             /\ r.session_start = RebuiltLog[1].ts
                             /\ r.session_end = RebuiltLog[4].ts
                             /\ r.num_entries = 2
    /\ \E r \in TableRows : Members(RebuiltLog, r) = {2, 3}

(***************************************************************************)
(* Claims about the tasks of a poll cycle                                  *)
(***************************************************************************)
\* A task that has a step to take and whose device answers.
Runnable(d) ==
    /\ cycle = "gathering"
    /\ \/ tasks[d] \in {"created"}
       \/ tasks[d] = "connecting" /\ hung[d] # "connect"
       \/ tasks[d] = "fetching" /\ hung[d] # "fetch"

\* C27: while the task of one device is sending a notification, the task of
\* every other device that has a step to take can take it.
C27_OthersRun ==
    pc = "send" =>
        \A d \in Devices \ {frame.device} : Runnable(d) => ENABLED Task_step(d)

(***************************************************************************)
(* Claims about the previous event of the gate                             *)
(***************************************************************************)
\* The fields each path compares with its previous event.
Compared(p, row) ==
    IF p.path = "device"
    THEN <<row.app, row.title, row.series_name, row.season, row.episode, row.media_type>>
    ELSE <<row.title, row.artist, row.album>>

\* C31: the decision of every poll that reaches the gate is the decision on
\* the candidate and the latest event stored before the poll for its own
\* source identity (device name and user): the poll is suppressed exactly
\* when both are Paused and agree in the fields the path compares.
C31_OwnPrevious ==
    \A i \in 1..Len(polls) :
        LET p == polls[i]
        IN  Gated(p) =>
                ( p.outcome = "suppress" <=>
                    /\ p.candidate.state = "Paused"
                    /\ OwnRows(p) # {}
                    /\ LET previous == now_playing[Latest(now_playing, OwnRows(p))]
                       IN  /\ previous.state = "Paused"
                           /\ Compared(p, previous) = Compared(p, p.candidate) )

(***************************************************************************)
(* Claims about the rows the floor leaves out                              *)
(***************************************************************************)
\* C32: after a rebuild no row of the table has num_entries = 1: every row
\* has at least two member events, and a group of one event has a watch time
\* of 0 and no row.
C32_NoSingleEvent ==
    Rebuilt =>
        /\ \A r \in TableRows :
              r.num_entries >= 2 /\ Cardinality(Members(RebuiltLog, r)) >= 2
        /\ \A i \in Plays(RebuiltLog) :
              GroupOf(RebuiltLog, i) = {i}
                  => /\ GroupWatchTime(RebuiltLog, {i}) = 0
                     /\ RowsOfGroup(RebuiltLog, i) = {}

\* A session of two events is in the table and a later session of one event,
\* which carries a position, is not.
C32_Witness ==
    /\ Rebuilt
    /\ Len(RebuiltLog) = 3
    /\ GroupOf(RebuiltLog, 3) = {3}
    /\ RebuiltLog[3].position # NoNum
    /\ Len(viewing_sessions.rows) = 1
    /\ viewing_sessions.rows[1].num_entries = 2

(***************************************************************************)
(* Claims about the reports of one poll                                    *)
(***************************************************************************)
\* C33: the poll of a device that has just ended made one call of the
\* notifier for the device: the call before it was not made in the same poll.
C33_OneReport ==
    (polls # <<>> /\ polls[Len(polls)].path = "device") =>
        LET d == polls[Len(polls)].device_name
        IN  /\ lastCall.device = d
            /\ calls[d].at = clock
            /\ calls[d].fn \in {"record_device_success", "record_device_error"}
            /\ ~(lastCall.prev.fn # "none" /\ lastCall.prev.at = clock)

(***************************************************************************)
(* Claims about repeated Paused events                                     *)
(***************************************************************************)
\* Rows i < j of one device with no row of the device between them.
AdjacentRows(i, j) ==
    /\ i < j
    /\ now_playing[i].device_name = now_playing[j].device_name
    /\ \A k \in (i + 1)..(j - 1) : now_playing[k].device_name # now_playing[i].device_name

\* C34: the log holds no two adjacent rows of one device that are both
\* Paused with the same app and the same media identity.
C34_NoPausedRepeat ==
    \A i, j \in 1..Len(now_playing) :
        AdjacentRows(i, j) =>
            ~( /\ now_playing[i].state = "Paused"
               /\ now_playing[j].state = "Paused"
               /\ now_playing[i].app = now_playing[j].app
               /\ MediaIdentity(now_playing[i]) = MediaIdentity(now_playing[j]) )

(***************************************************************************)
(* Claims about what a call of the notifier leaves alone                   *)
(***************************************************************************)
\* What a mapping of the file holds under a key: one value or none.
Entry(dict, key) == IF key \in DOMAIN dict THEN <<dict[key]>> ELSE <<>>

\* The device whose call takes the step from one state to the next.
Caller == IF pc # "idle" THEN frame.device
          ELSE IF pc' # "idle" THEN frame'.device ELSE lastCall'.device

\* A completed call of record_device_error attempted a send exactly when the
\* count of its own device had reached the threshold and the device's own
\* last_notified entry was missing or a cooldown old.
OwnDecision(d) ==
    calls[d].fn = "record_device_error" =>
        ( calls[d].attempts = 1 <=>
            /\ calls[d].count >= CONSECUTIVE_FAILURES_THRESHOLD
            /\ \/ calls[d].last = None
               \/ SecondsSinceNotified(calls[d]) >= ERROR_COOLDOWN_MINUTES * 60 )

\* C35: a step of record_device_error or record_device_success for a device
\* changes no failure count and no last_notified entry of another device;
\* record_device_success changes no last_notified entry at all; and whether
\* a call of record_device_error attempts a send is decided by the count and
\* the last_notified entry of its own device.
C35_FrameOfCall ==
    [][ /\ \A k \in ErrorKeys :
              ( \/ Entry(error_state.failure_counts, k)
                       # Entry(error_state'.failure_counts, k)
                \/ Entry(error_state.last_notified, k)
                       # Entry(error_state'.last_notified, k) )
                  => k = ErrorKey(Caller)
        /\ \A d \in Devices :
              (calls'[d] # calls[d] /\ calls'[d].fn = "record_device_success")
                  => error_state'.last_notified = error_state.last_notified
        /\ \A d \in Devices : OwnDecision(d)' ]_vars

\* A device that was notified has reported a success and keeps its
\* last_notified entry, while the other device keeps its count of three and
\* its own entry.
C35_Witness ==
    /\ pc = "idle"
    /\ \E a, b \in Devices :
          /\ a # b
          /\ lastCall.device = a
          /\ calls[a].fn = "record_device_success"
          /\ lastCall.prev.fn = "record_device_error"
          /\ StoredNotified(a) # None
          /\ StoredCount(a) = 0
          /\ StoredCount(b) = 3
          /\ StoredNotified(b) # None

(***************************************************************************)
(* Claims about a sustained outage                                         *)
(***************************************************************************)
\* The next failure of d is at or past the threshold, no notification of d
\* is less than a cooldown old, and d is polled again.
Due(d) ==
    /\ reported[d] < MaxOutagePolls
    /\ StoredCount(d) >= CONSECUTIVE_FAILURES_THRESHOLD - 1
    /\ \/ StoredNotified(d) = None
       \/ clock - FromIsoFormat(StoredNotified(d)) >= ERROR_COOLDOWN_MINUTES * 60

\* The poll of d that has just ended sent a notification.
NotifiedNow(d) == calls[d].ret = "True" /\ calls[d].at = clock

\* C36: in an outage of a device whose polls keep occurring and whose mail
\* goes out, a notification is sent at the third failure in a row, and
\* whenever the cooldown of the last notification is over the next failure
\* sends another one.
C36_OutageNotified ==
    \A d \in Devices :
        /\ <>(NotifiedNow(d) /\ calls[d].count = CONSECUTIVE_FAILURES_THRESHOLD)
        /\ Due(d) ~> NotifiedNow(d)

\* The fourth failure of a device, an hour after the notification of its
\* third, sent a second notification.
C36_Witness ==
    \E d \in Devices :
        /\ NotifiedNow(d)
        /\ calls[d].count = 4
        /\ calls[d].last # None
        /\ SecondsSinceNotified(calls[d]) = ERROR_COOLDOWN_MINUTES * 60

(***************************************************************************)
(* Claims about the migration of generic device names                      *)
(***************************************************************************)
\* A row with a generic device name and a user name.
Generic(row) == row.device_name \in {"iPhone", "iPad"} /\ row.user_name # None

\* C37: on every log, migrate_iphone_names gives each row with device name
\* iPhone or iPad and a user name the device name the Spotify path stores
\* for that raw name and user, leaves every other row and every other field
\* as it is, and applied to its own result changes nothing.
C37_MigrationAgrees ==
    LET m == MigrateIphoneNames(now_playing)
    IN  /\ Len(m) = Len(now_playing)
        /\ \A i \in 1..Len(now_playing) :
              IF Generic(now_playing[i])
              THEN m[i] = [now_playing[i] EXCEPT !.device_name =
                              SpotifyDeviceName(now_playing[i].device_name,
                                                now_playing[i].user_name)]
              ELSE m[i] = now_playing[i]
        /\ MigrateIphoneNames(m) = m

\* A row of the old time, after the two migrations, carries the device name
\* of the row that a poll of the same account on the same phone has stored
\* since.
C37_Witness ==
    /\ Len(now_playing) = 2
    /\ Len(polls) = 1
    /\ polls[1].outcome = "emit"
    /\ polls[1].before = 1
    /\ now_playing[1].device_name = "iPhone (Ted)"
    /\ now_playing[2].device_name = "iPhone (Ted)"
    /\ now_playing[1].user_name = now_playing[2].user_name

====
